---- MODULE Spec2Model ----
(***************************************************************************)
(* Model of the arkus scraper worker: the Booking price scrapers           *)
(* (scrapeBookingPrices, scrapeMultipleDates in scripts/hotel_propio.js)   *)
(* and the Songkick event scraper (scrapeSongkick).                        *)
(*                                                                         *)
(* A job is a sequence of awaited browser calls.  Every awaited call is a  *)
(* step of the model: it either resolves (with a value drawn from a small  *)
(* set) or throws, and the step follows the try/catch structure of the     *)
(* source from there.  Dates are day numbers obtained from timestamps the  *)
(* way toISOString().split('T')[0] obtains them.                           *)
(***************************************************************************)
EXTENDS Integers, Sequences, FiniteSets, TLC

VARIABLES
    entry,        \* entry point running: "partition", "single", "multi", "events"
    pc,           \* position of the entry point's main flow
    browser,      \* "none", "open", "closed"
    outcome,      \* "pending", "resolved", "rejected" (the promise seen by the caller)
    returned,     \* the array the promise resolved to
    failure,      \* the call whose throw rejected the promise ("none": no such call)
    days,         \* scrapeMultipleDates: days option
    concurrency,  \* scrapeMultipleDates: concurrency option
    dateRanges,   \* scrapeMultipleDates: the blocks, a sequence of <<start, end>>
    blocks,       \* scrapeMultipleDates: one processRange call per block
    results,      \* scrapeMultipleDates: the shared results array
    site,         \* what the hotel pages show: "rooms" (any page) or "empty"
    add,          \* scrapeBookingPrices: the retry loop's counter
    navigated,    \* scrapeBookingPrices: check-in dates of the page.goto calls, in order
    tried,        \* scrapeBookingPrices: date and rooms of every completed extraction
    radiusKm,     \* scrapeSongkick: the radius argument, in metres, or NaN
    events,       \* scrapeSongkick: the events array
    fetch,        \* scrapeSongkick: one enrichment fetch per record of needEnrichment
    batch,        \* scrapeSongkick: number of the enrichment batch in progress
    scrolled,     \* scrapeSongkick: scroll steps made (the i of the scroll loop)
    primaryOut,     \* extraction just made: what the first strategy produced
    fallbackOut,  \* extraction just made: what the fallback strategy found on the page
    picked,       \* extraction just made: the records the job took from it
    pickedDate,   \* extraction just made: its check-in date (-1: no extraction)
    apiKey,       \* server: process.env.WORKER_API_KEY ("" when unset)
    envTimeout,   \* server: process.env.SCRAPER_TIMEOUT_MS (0 when unset)
    req,          \* server: the request being handled
    srv,          \* server: position of the request: "idle", "auth", "route", "running", "done";
                  \* "crashed": the server process has ended
    reached,      \* server: the route handler the request went into ("none": none)
    child,        \* the spawned script: its state, output so far and timer
    run,          \* server: what runNodeScript resolved to (finished: its flag)
    response,     \* server: the response sent (status 0: none yet)
    lastAmadeusCache, \* server: the one-entry cache of /amadeus
    stopFlags,    \* server: users with a stop file
    served,       \* server: requests received so far
    env,          \* a script's environment: the credentials of the upstream services
    argv,         \* a script's command line, as the script reads it
    net,          \* the requests a script has issued to upstream services, in order
    upstream,     \* the number of events Ticketmaster holds for the query of the script
    handlers,     \* /amadeus: the invocations of the handler, each with its locals
    amadeusCache, \* /amadeus with a TTL: the Map from key to { hotels, ts }
    now           \* /amadeus with a TTL: Date.now(), in minutes

jobVars    == <<entry, pc, browser, outcome, returned, failure>>
multiVars == <<days, concurrency, dateRanges, blocks, results, site>>
singleVars == <<add, navigated, tried>>
eventVars == <<radiusKm, events, fetch, batch, scrolled>>
pipeVars  == <<primaryOut, fallbackOut, picked, pickedDate>>
srvVars   == <<apiKey, envTimeout, req, srv, reached, child, run, response,
               lastAmadeusCache, stopFlags, served, env, argv, net, upstream,
                handlers, amadeusCache, now>>
vars      == <<jobVars, multiVars, singleVars, eventVars, pipeVars, srvVars>>

----------------------------------------------------------------------------
(* Bounds of the model *)

MaxWindow      == 95   \* longest window handed to the partition alone
MaxDays        == 32   \* longest window of a modelled multi-day run
MaxConcurrency == 2    \* largest concurrency option of a modelled run
MaxRichWindow  == 1    \* longest window run against pages that show rooms
MaxRows        == 2    \* rows of the pricing table
MaxEls         == 2    \* generic price elements on a page

(* Seconds in a day; the source counts milliseconds (86400000). *)
DaySeconds     == 86400

(* Labels and price tokens a page can show.  "" is a label that is unusable *)
(* (empty or too short after cleaning) and, for a price, text in which the  *)
(* currency pattern matches nothing.                                        *)
RoomTypes == {"Double", "Suite"}
Prices    == {"MXN 100", "MXN 200"}

(* Text of a label as found in the page: a room type, the same with          *)
(* surrounding whitespace, or nothing usable.                                *)
RawLabels == RoomTypes \cup {" Double ", ""}

Min(a, b) == IF a <= b THEN a ELSE b

SeqsUpTo(S, n) == UNION {[1..k -> S] : k \in 0..n}

Range(s) == {s[i] : i \in 1..Len(s)}

----------------------------------------------------------------------------
(* Dates *)

(* The job starts in the last second of a UTC day. *)
Now == DaySeconds - 1

(* toISOString().split('T')[0]: the UTC day of a timestamp, as a day number *)
IsoDate(t) == t \div DaySeconds

(* new Date(today.getTime() + offset*86400000) formatted as a date *)
CheckinDate(offset) == IsoDate(Now + offset * DaySeconds)

----------------------------------------------------------------------------
(* Price extraction *)

(* .replace(/\s+/g, ' ').trim() *)
Normalize(text) == IF text = " Double " THEN "Double" ELSE text

Row     == [name : RawLabels, price : Prices \cup {""}]
RowSeqs == SeqsUpTo(Row, MaxRows)
ElSeqs  == SeqsUpTo(Row, MaxEls)
Room(r) == [room_type |-> Normalize(r.name), price |-> r.price]

(* Rows of #hprt-table in document order: a row is skipped when its label is *)
(* unusable or already taken, and it is recorded (and its label marked as    *)
(* taken) only when a price token is found in it.                            *)
RECURSIVE HprtScan(_, _, _)
HprtScan(rows, out, seen) ==
    IF rows = <<>> THEN out
    ELSE LET row == Head(rows) IN
         IF Normalize(row.name) = "" \/ Normalize(row.name) \in seen \/ row.price = ""
         THEN HprtScan(Tail(rows), out, seen)
         ELSE HprtScan(Tail(rows), Append(out, Room(row)),
                       seen \cup {Normalize(row.name)})

hprtTable(rows) == HprtScan(rows, <<>>, {})

(* Generic price elements, as the retry and the multi-day extraction read    *)
(* them: first element per label.                                            *)
RECURSIVE GenericSeenScan(_, _, _)
GenericSeenScan(els, out, seen) ==
    IF els = <<>> THEN out
    ELSE LET el == Head(els) IN
         IF el.price = "" \/ Normalize(el.name) = "" \/ Normalize(el.name) \in seen
         THEN GenericSeenScan(Tail(els), out, seen)
         ELSE GenericSeenScan(Tail(els), Append(out, Room(el)),
                              seen \cup {Normalize(el.name)})

genericSeen(els) == GenericSeenScan(els, <<>>, {})

(* Generic price elements, as the initial lookup reads them: an element is   *)
(* dropped only when the same label with the same price is already recorded. *)
RECURSIVE GenericPairScan(_, _)
GenericPairScan(els, out) ==
    IF els = <<>> THEN out
    ELSE LET el == Head(els) IN
         IF el.price = "" \/ Normalize(el.name) = "" \/ Room(el) \in Range(out)
         THEN GenericPairScan(Tail(els), out)
         ELSE GenericPairScan(Tail(els), Append(out, Room(el)))

genericPairs(els) == GenericPairScan(els, <<>>)

(* (r.room_type || '').trim() *)
TrimKey(label) == Normalize(label)

(* "Dedupe: conservar solo el primer precio por tipo de habitacion" *)
RECURSIVE FirstPriceScan(_, _, _)
FirstPriceScan(rooms, out, seen) ==
    IF rooms = <<>> THEN out
    ELSE LET r == Head(rooms)
             key == TrimKey(r.room_type) IN
         IF key = "" \/ key \in seen
         THEN FirstPriceScan(Tail(rooms), out, seen)
         ELSE FirstPriceScan(Tail(rooms), Append(out, r), seen \cup {key})

(* The dedupe left out: every extracted room is kept. *)
firstPriceByType_keepAll(rooms) == rooms

firstPriceByType(rooms) == FirstPriceScan(rooms, <<>>, {})

(* The two strategies merged instead of chained. *)
dayRooms_merged(rows, els) == hprtTable(rows) \o genericSeen(els)

(* The in-page part of the retry and multi-day extraction: the table, and    *)
(* the generic elements only if the table gave nothing.                      *)
dayRooms(rows, els) ==
    IF hprtTable(rows) # <<>> THEN hprtTable(rows) ELSE genericSeen(els)

(* The generic elements of a page: any on a page without table rows, at     *)
(* most one beside a table with rows.                                        *)
ElsBeside(rows) ==
    IF rows = <<>> THEN ElSeqs ELSE SeqsUpTo(Row, 1)

----------------------------------------------------------------------------
(* scrapeMultipleDates: the partition of the window into blocks *)

DateRanges(d) ==
    SelectSeq(<< <<0, Min(30, d - 1)>>, <<31, Min(60, d - 1)>>, <<61, Min(90, d - 1)>> >>,
              LAMBDA r : r[1] <= r[2])

CONCURRENT_TASKS(c) == Min(c, 5)

----------------------------------------------------------------------------
(* State shared by the entry points *)

NoExtraction ==
    /\ primaryOut = <<>> /\ fallbackOut = <<>> /\ picked = <<>> /\ pickedDate = -1

(* The record of the last extraction lasts for the step that made it. *)
ClearExtraction ==
    /\ primaryOut' = <<>> /\ fallbackOut' = <<>> /\ picked' = <<>> /\ pickedDate' = -1

NoSingle == add = 0 /\ navigated = <<>> /\ tried = <<>>

NoEvents == radiusKm = 0 /\ events = <<>> /\ fetch = <<>> /\ batch = 0 /\ scrolled = 0

(* A script that has not been spawned, a call of runNodeScript not made,    *)
(* a response not sent, a request not received.                              *)
NullCode == 0 - 9
JsonNull == [t |-> "null", v |-> <<>>]
NoChild == [st |-> "none", script |-> "none", stdout |-> <<>>, timeoutMs |-> 0]
NoRun == [finished |-> FALSE, code |-> 0, stdout |-> <<>>, stderr |-> ""]
NoResponse == [status |-> 0]
NoReq == [route |-> "none", key |-> "", bodyOk |-> FALSE, wellFormed |-> FALSE,
          saveToDb |-> FALSE, params |-> ""]
NoCache == [key |-> "", response |-> NoResponse]
NoEnv == [TICKETMASTER_API_KEY |-> "", AMADEUS_API_KEY |-> "", AMADEUS_API_SECRET |-> ""]
NoArgv == [given |-> FALSE, latOk |-> FALSE, lonOk |-> FALSE, saveToDb |-> FALSE,
           userId |-> FALSE]

(* No server: the entry point is called directly. *)
NoServer ==
    /\ apiKey = "" /\ envTimeout = 0 /\ req = NoReq /\ srv = "idle" /\ reached = "none"
    /\ child = NoChild /\ run = NoRun /\ response = NoResponse
    /\ lastAmadeusCache = NoCache /\ stopFlags = {} /\ served = 0
    /\ env = NoEnv /\ argv = NoArgv /\ net = <<>> /\ upstream = 0
    /\ handlers = <<>> /\ amadeusCache = <<>> /\ now = 0

Created ==
    browser = "none" /\ outcome = "pending" /\ returned = <<>> /\ failure = "none"

(* The promise of the entry point settles. *)
Resolve(value) ==
    outcome' = "resolved" /\ returned' = value /\ pc' = "done" /\ UNCHANGED failure
Reject(call) ==
    outcome' = "rejected" /\ returned' = <<>> /\ pc' = "done" /\ failure' = call

----------------------------------------------------------------------------
(* The partition on its own, for every window length *)

InitPartition ==
    /\ entry = "partition" /\ pc = "start"
    /\ days \in 1..MaxWindow
    /\ concurrency = 1 /\ dateRanges = <<>> /\ blocks = <<>>
    /\ results = <<>> /\ site = "empty"
    /\ Created /\ NoExtraction /\ NoSingle /\ NoEvents /\ NoServer

BuildRanges ==
    /\ entry = "partition" /\ pc = "start"
    /\ dateRanges' = DateRanges(days)
    /\ pc' = "done"
    /\ UNCHANGED <<entry, browser, outcome, returned, failure, days, concurrency, blocks,
                   results, site>>
    /\ UNCHANGED <<singleVars, eventVars, srvVars>> /\ ClearExtraction

NextPartition == BuildRanges

SpecPartition == InitPartition /\ [][NextPartition]_vars

----------------------------------------------------------------------------
(* scrapeMultipleDates *)

InitMulti ==
    /\ entry = "multi" /\ pc = "launch"
    /\ days \in 1..MaxDays
    /\ concurrency \in 1..MaxConcurrency
    /\ site \in (IF days <= MaxRichWindow THEN {"rooms", "empty"} ELSE {"empty"})
    /\ dateRanges = <<>> /\ blocks = <<>> /\ results = <<>>
    /\ Created /\ NoExtraction /\ NoSingle /\ NoEvents /\ NoServer

(* const browser = await chromium.launch({ headless }) *)
MultiLaunch ==
    /\ entry = "multi" /\ pc = "launch"
    /\ \/ browser' = "open" /\ pc' = "newPage" /\ UNCHANGED <<outcome, returned, failure>>
       \/ Reject("launch") /\ UNCHANGED browser
    /\ UNCHANGED <<entry, multiVars>>
    /\ UNCHANGED <<singleVars, eventVars, srvVars>> /\ ClearExtraction

(* const page = await browser.newPage({ userAgent }) *)
MultiNewPage ==
    /\ entry = "multi" /\ pc = "newPage"
    /\ \/ pc' = "search" /\ UNCHANGED <<outcome, returned, failure>>
       \/ Reject("newPage")
    /\ UNCHANGED <<entry, browser, multiVars>>
    /\ UNCHANGED <<singleVars, eventVars, srvVars>> /\ ClearExtraction

(* await page.goto(searchUrl, ...); the waitForSelector after it is caught *)
MultiSearch ==
    /\ entry = "multi" /\ pc = "search"
    /\ \/ pc' = "href" /\ UNCHANGED <<outcome, returned, failure>>
       \/ Reject("goto")
    /\ UNCHANGED <<entry, browser, multiVars>>
    /\ UNCHANGED <<singleVars, eventVars, srvVars>> /\ ClearExtraction

(* const href = await page.evaluate(...); if (!href) { close; return [] } *)
MultiFindHref ==
    /\ entry = "multi" /\ pc = "href"
    /\ \/ pc' = "hotel" /\ UNCHANGED <<browser, outcome, returned, failure>>
       \/ browser' = "closed" /\ Resolve(<<>>)
       \/ Reject("evaluate") /\ UNCHANGED browser
    /\ UNCHANGED <<entry, multiVars>>
    /\ UNCHANGED <<singleVars, eventVars, srvVars>> /\ ClearExtraction

(* await page.goto(href, ...) *)
MultiOpenHotel ==
    /\ entry = "multi" /\ pc = "hotel"
    /\ \/ pc' = "schedule" /\ UNCHANGED <<outcome, returned, failure>>
       \/ Reject("goto")
    /\ UNCHANGED <<entry, browser, multiVars>>
    /\ UNCHANGED <<singleVars, eventVars, srvVars>> /\ ClearExtraction

(* dateRanges, CONCURRENT_TASKS, results = [], and the call of processRange   *)
(* for every range by dateRanges.map: each call runs up to its first await,   *)
(* the request for its page.                                                  *)
(* Every block starting from the first day of the window. *)
NewBlock_fromZero(range) ==
    [pc |-> "newPage", offset |-> 0, end |-> range[2], page |-> "none", visited |-> <<>>]

(* visited: the offsets of the p.goto calls the block has made on its page *)
NewBlock(range) ==
    [pc |-> "newPage", offset |-> range[1], end |-> range[2], page |-> "none",
     visited |-> <<>>]

MultiSchedule ==
    /\ entry = "multi" /\ pc = "schedule"
    /\ dateRanges' = DateRanges(days)
    /\ blocks' = [i \in 1..Len(DateRanges(days)) |-> NewBlock(DateRanges(days)[i])]
    /\ results' = <<>>
    /\ pc' = "join"
    /\ UNCHANGED <<entry, browser, outcome, returned, failure, days, concurrency, site>>
    /\ UNCHANGED <<singleVars, eventVars, srvVars>> /\ ClearExtraction

Blocks == 1..Len(blocks)

(* After a day: the next offset of the loop, or the close of the page. *)
NextDay(b) ==
    IF b.offset + 1 <= b.end
    THEN [b EXCEPT !.offset = b.offset + 1, !.pc = "goto"]
    ELSE [b EXCEPT !.offset = b.offset + 1, !.pc = "close"]

(* const p = await browser.newPage(...) of processRange *)
RangeNewPage(i) ==
    /\ entry = "multi" /\ i \in Blocks /\ blocks[i].pc = "newPage"
    /\ \/ blocks' = [blocks EXCEPT ![i].page = "open", ![i].pc = "goto"]
       \/ blocks' = [blocks EXCEPT ![i].pc = "failed"]
    /\ UNCHANGED <<jobVars, days, concurrency, dateRanges, results, site>>
    /\ UNCHANGED <<singleVars, eventVars, srvVars>> /\ ClearExtraction

(* A day that fails to load ends its block: nothing recorded, page closed. *)
RangeGoto_abortBlock(i) ==
    /\ entry = "multi" /\ i \in Blocks /\ blocks[i].pc = "goto"
    /\ \/ blocks' = [blocks EXCEPT ![i].pc = "extract",
                                    ![i].visited = Append(@, blocks[i].offset)]
       \/ blocks' = [blocks EXCEPT ![i].pc = "close",
                                    ![i].visited = Append(@, blocks[i].offset)]
    /\ UNCHANGED results
    /\ UNCHANGED <<jobVars, days, concurrency, dateRanges, site>>
    /\ UNCHANGED <<singleVars, eventVars, srvVars>> /\ ClearExtraction

(* await p.goto(newUrl, ...): on a throw the catch records an empty day *)
RangeGoto(i) ==
    /\ entry = "multi" /\ i \in Blocks /\ blocks[i].pc = "goto"
    /\ \/ /\ blocks' = [blocks EXCEPT ![i].pc = "extract",
                                       ![i].visited = Append(@, blocks[i].offset)]
          /\ UNCHANGED results
       \/ /\ results' = Append(results, [date |-> CheckinDate(blocks[i].offset), rooms |-> <<>>])
          /\ blocks' = [blocks EXCEPT
                          ![i] = NextDay([blocks[i] EXCEPT !.visited = Append(@, blocks[i].offset)])]
    /\ UNCHANGED <<jobVars, days, concurrency, dateRanges, site>>
    /\ UNCHANGED <<singleVars, eventVars, srvVars>> /\ ClearExtraction

(* What the site shows for a day of the run. *)
RowsShown == IF site = "rooms" THEN RowSeqs ELSE {<<>>}
ElsShown(rows) == IF site = "rooms" THEN ElsBeside(rows) ELSE {<<>>}

(* The caught waitForSelector, p.evaluate, the per-day dedupe and the push;  *)
(* a throw of p.evaluate records an empty day.                               *)
RangeExtract(i) ==
    /\ entry = "multi" /\ i \in Blocks /\ blocks[i].pc = "extract"
    /\ \/ \E rows \in RowsShown : \E els \in ElsShown(rows) :
            /\ results' = Append(results, [date  |-> CheckinDate(blocks[i].offset),
                                           rooms |-> firstPriceByType(dayRooms(rows, els))])
            /\ primaryOut' = hprtTable(rows)
            /\ fallbackOut' = genericSeen(els)
            /\ picked' = firstPriceByType(dayRooms(rows, els))
            /\ pickedDate' = CheckinDate(blocks[i].offset)
       \/ /\ results' = Append(results, [date |-> CheckinDate(blocks[i].offset), rooms |-> <<>>])
          /\ ClearExtraction
    /\ blocks' = [blocks EXCEPT ![i] = NextDay(blocks[i])]
    /\ UNCHANGED <<jobVars, days, concurrency, dateRanges, site, singleVars, eventVars, srvVars>>

(* await p.close() *)
RangeClose(i) ==
    /\ entry = "multi" /\ i \in Blocks /\ blocks[i].pc = "close"
    /\ blocks' = [blocks EXCEPT ![i].page = "closed", ![i].pc = "done"]
    /\ UNCHANGED <<jobVars, days, concurrency, dateRanges, results, site>>
    /\ UNCHANGED <<singleVars, eventVars, srvVars>> /\ ClearExtraction

(* await Promise.all(...): rejects as soon as one processRange has rejected, *)
(* else resolves when all have returned; then browser.close(); return results *)
MultiJoin ==
    /\ entry = "multi" /\ pc = "join"
    /\ \/ /\ \E i \in Blocks : blocks[i].pc = "failed"
          /\ Reject("newPage") /\ UNCHANGED browser
       \/ /\ \A i \in Blocks : blocks[i].pc = "done"
          /\ browser' = "closed"
          /\ Resolve(results)
    /\ UNCHANGED <<entry, multiVars>>
    /\ UNCHANGED <<singleVars, eventVars, srvVars>> /\ ClearExtraction

NextMulti ==
    \/ MultiLaunch \/ MultiNewPage \/ MultiSearch \/ MultiFindHref \/ MultiOpenHotel
    \/ MultiSchedule \/ MultiJoin
    \/ \E i \in 1..3 : RangeNewPage(i) \/ RangeGoto(i) \/ RangeExtract(i) \/ RangeClose(i)

SpecMulti == InitMulti /\ [][NextMulti]_vars

----------------------------------------------------------------------------
(* scrapeBookingPrices: the single-target lookup *)

(* In navigated: a goto whose URL carries no check-in date *)
NoDate == 0 - 1

(* One shifted date too many. *)
RetryLimit_oneMore == 5 + 1

(* "Reintentar hasta 5 dias hacia adelante": for (add = 1; add <= 5; add++) *)
RetryLimit == 5

InitSingle ==
    /\ entry = "single" /\ pc = "launch"
    /\ site = "rooms"
    /\ days = 1 /\ concurrency = 1 /\ dateRanges = <<>> /\ blocks = <<>> /\ results = <<>>
    /\ Created /\ NoExtraction /\ NoSingle /\ NoEvents /\ NoServer

SingleFrame == UNCHANGED <<entry, multiVars, eventVars, srvVars>>

(* await browser.close(); return value *)
CloseAndReturn(value) == browser' = "closed" /\ Resolve(value)

(* chromium.launch and browser.newPage, outside every try *)
SingleLaunch ==
    /\ entry = "single" /\ pc = "launch"
    /\ \/ browser' = "open" /\ pc' = "search" /\ UNCHANGED <<outcome, returned, failure>>
       \/ Reject("launch") /\ UNCHANGED browser
    /\ SingleFrame /\ UNCHANGED singleVars /\ ClearExtraction

(* page.goto(url) of the search results, whose URL carries checkin = today;  *)
(* a second goto of the same URL after a throw; close and [] after two       *)
SingleSearch ==
    /\ entry = "single" /\ pc \in {"search", "search2"}
    /\ navigated' = Append(navigated, IsoDate(Now))
    /\ \/ pc' = "waitResults" /\ UNCHANGED <<browser, outcome, returned, failure>>
       \/ pc = "search" /\ pc' = "search2" /\ UNCHANGED <<browser, outcome, returned, failure>>
       \/ pc = "search2" /\ CloseAndReturn(<<>>)
    /\ SingleFrame /\ UNCHANGED <<add, tried>> /\ ClearExtraction

(* waitForSelector; in its catch waitForLoadState("networkidle"), unguarded; *)
(* then page.screenshot, unguarded                                           *)
SingleWaitResults ==
    /\ entry = "single" /\ pc = "waitResults"
    /\ \/ pc' = "choose" /\ UNCHANGED <<outcome, returned, failure>>
       \/ Reject("wait")
    /\ UNCHANGED browser
    /\ SingleFrame /\ UNCHANGED singleVars /\ ClearExtraction

(* The try around the choice of the best match: no candidate, or a throw of  *)
(* the evaluate or of page.goto(chosenHref), closes and returns [].  The     *)
(* hotel link keeps the dates of the search or has none.                     *)
SingleChoose ==
    /\ entry = "single" /\ pc = "choose"
    /\ \/ /\ CloseAndReturn(<<>>)
          /\ UNCHANGED navigated
       \/ /\ navigated' = Append(navigated, IsoDate(Now))
          /\ \/ pc' = "readiness" /\ UNCHANGED <<browser, outcome, returned, failure>>
             \/ CloseAndReturn(<<>>)
       \/ /\ navigated' = Append(navigated, NoDate)
          /\ \/ pc' = "ensureDates" /\ UNCHANGED <<browser, outcome, returned, failure>>
             \/ CloseAndReturn(<<>>)
    /\ SingleFrame /\ UNCHANGED <<add, tried>> /\ ClearExtraction

(* if (!hasDates) page.goto(u) with checkin = today; its throw is swallowed *)
SingleEnsureDates ==
    /\ entry = "single" /\ pc = "ensureDates"
    /\ navigated' = Append(navigated, IsoDate(Now))
    /\ pc' = "readiness"
    /\ UNCHANGED <<browser, outcome, returned, failure>>
    /\ SingleFrame /\ UNCHANGED <<add, tried>> /\ ClearExtraction

(* Availability button, cookie banner, screenshot, wait for the table: each  *)
(* in a try with an empty catch                                              *)
SingleReadiness ==
    /\ entry = "single" /\ pc = "readiness"
    /\ pc' = "extract"
    /\ UNCHANGED <<browser, outcome, returned, failure>>
    /\ SingleFrame /\ UNCHANGED singleVars /\ ClearExtraction

(* let roomData = evaluate(table); if empty, roomData = evaluate(generic) *)
roomData(rows, els) ==
    IF hprtTable(rows) # <<>> THEN hprtTable(rows) ELSE genericPairs(els)

(* After a retry: add++ and the loop test; after the loop close and [] *)
NextRetry ==
    /\ add' = add + 1
    /\ IF add + 1 <= RetryLimit
       THEN pc' = "retry" /\ UNCHANGED <<browser, outcome, returned, failure>>
       ELSE CloseAndReturn(<<>>)

(* The two evaluates, the dedupe and the test of firstPriceByType.length:    *)
(* the first evaluate is outside every try, the throw of the second one is   *)
(* swallowed and leaves roomData empty.                                      *)
SingleExtract ==
    /\ entry = "single" /\ pc = "extract"
    /\ \/ /\ Reject("evaluate") /\ UNCHANGED <<browser, add, tried>>
          /\ ClearExtraction
       \/ \E rows \in RowSeqs : \E els \in ElsBeside(rows) : \E thrown \in BOOLEAN :
            LET found == IF thrown THEN roomData(rows, <<>>) ELSE roomData(rows, els)
                rooms == firstPriceByType(found) IN
            /\ primaryOut' = hprtTable(rows)
            /\ fallbackOut' = IF thrown THEN <<>> ELSE genericPairs(els)
            /\ picked' = rooms
            /\ pickedDate' = IsoDate(Now)
            /\ tried' = Append(tried, [date |-> IsoDate(Now), got |-> rooms])
            /\ IF rooms # <<>>
               THEN CloseAndReturn(<<[date |-> IsoDate(Now), rooms |-> rooms]>>)
                    /\ UNCHANGED add
               ELSE add' = 1 /\ pc' = "retry" /\ UNCHANGED <<browser, outcome, returned, failure>>
    /\ UNCHANGED navigated
    /\ SingleFrame

(* page.goto(u2) of the retry loop; a throw goes to the catch of the loop body *)
SingleRetryGoto ==
    /\ entry = "single" /\ pc = "retry"
    /\ navigated' = Append(navigated, CheckinDate(add))
    /\ \/ pc' = "retryExtract" /\ UNCHANGED <<add, browser, outcome, returned, failure>>
       \/ NextRetry
    /\ UNCHANGED tried
    /\ SingleFrame /\ ClearExtraction

(* The retry loop going on to the next date after a date with rooms. *)
SingleRetryExtract_noStop ==
    /\ entry = "single" /\ pc = "retryExtract"
    /\ \/ /\ NextRetry /\ UNCHANGED tried
          /\ ClearExtraction
       \/ \E rows \in RowSeqs : \E els \in ElsBeside(rows) :
            LET unique == firstPriceByType(dayRooms(rows, els)) IN
            /\ primaryOut' = hprtTable(rows)
            /\ fallbackOut' = genericSeen(els)
            /\ picked' = unique
            /\ pickedDate' = CheckinDate(add)
            /\ tried' = Append(tried, [date |-> CheckinDate(add), got |-> unique])
            /\ NextRetry
    /\ UNCHANGED navigated
    /\ SingleFrame

(* The caught waitForSelector, the evaluate of the retry, its dedupe and the *)
(* test of unique.length; a throw of the evaluate goes to the catch          *)
SingleRetryExtract ==
    /\ entry = "single" /\ pc = "retryExtract"
    /\ \/ /\ NextRetry /\ UNCHANGED tried
          /\ ClearExtraction
       \/ \E rows \in RowSeqs : \E els \in ElsBeside(rows) :
            LET unique == firstPriceByType(dayRooms(rows, els)) IN
            /\ primaryOut' = hprtTable(rows)
            /\ fallbackOut' = genericSeen(els)
            /\ picked' = unique
            /\ pickedDate' = CheckinDate(add)
            /\ tried' = Append(tried, [date |-> CheckinDate(add), got |-> unique])
            /\ IF unique # <<>>
               THEN CloseAndReturn(<<[date |-> CheckinDate(add), rooms |-> unique]>>)
                    /\ UNCHANGED add
               ELSE NextRetry
    /\ UNCHANGED navigated
    /\ SingleFrame

NextSingle ==
    \/ SingleLaunch \/ SingleSearch \/ SingleWaitResults \/ SingleChoose
    \/ SingleEnsureDates \/ SingleReadiness \/ SingleExtract
    \/ SingleRetryGoto \/ SingleRetryExtract

SpecSingle == InitSingle /\ [][NextSingle]_vars

----------------------------------------------------------------------------
(* scrapeSongkick *)

MaxEvents == 2    \* event objects in the JSON-LD, event anchors in the page

(* Distances and the radius are counted in metres. *)
NaN   == 0 - 1
Radii == {49999, 50000, NaN}

(* Places an event can be at, named by where they lie from the origin. *)
Points == {"edge", "far"}

(* toKm({lat, lon}, {lat: evLat, lon: evLon}) for the origin of the job *)
toKm(point) ==
    CASE point = "edge" -> 49996
      [] point = "far"  -> 50004

(* Math.round(distance * 100) / 100 *)
Round2(distance) == ((distance + 5) \div 10) * 10

(* distance <= radiusKm and distance > radiusKm; both are false for NaN *)
Leq(distance, radius) == radius # NaN /\ distance <= radius
Gt(distance, radius)  == radius # NaN /\ distance > radius

(* url.startsWith('http') ? url : (BASE_URL + url) *)
AbsUrl(url) ==
    IF url = "/concerts/1" THEN "https://www.songkick.com/concerts/1" ELSE url

Fechas == {"", "2026-12-01"}
Venues == {"", "Arena"}

LdItem     == [name : {"Band"}, date : Fechas, venue : Venues,
               url : {"/concerts/1", "https://www.songkick.com/concerts/1"},
               geo : Points \cup {"none"}]
AnchorItem == [name : {"Band"}, date : Fechas, venue : Venues,
               url : {"/concerts/1"}, geo : Points \cup {"none"}]

EventNoGeo(it) ==
    [nombre |-> it.name, fecha |-> it.date, lugar |-> it.venue, enlace |-> AbsUrl(it.url)]
(* The coordinates recorded without the distance. *)
EventGeo_bare(it) ==
    [nombre |-> it.name, fecha |-> it.date, lugar |-> it.venue, enlace |-> AbsUrl(it.url),
     latitude |-> it.geo, longitude |-> it.geo]

EventGeo(it) ==
    [nombre |-> it.name, fecha |-> it.date, lugar |-> it.venue, enlace |-> AbsUrl(it.url),
     latitude |-> it.geo, longitude |-> it.geo, distance_km |-> Round2(toKm(it.geo))]

(* The JSON-LD strategy: an event with geo is pushed if distance <= radiusKm, *)
(* an event without geo always                                              *)
RECURSIVE ldEvents(_, _)
ldEvents(items, radius) ==
    IF items = <<>> THEN <<>>
    ELSE LET it == Head(items) IN
         (IF it.geo # "none"
          THEN (IF Leq(toKm(it.geo), radius) THEN <<EventGeo(it)>> ELSE <<>>)
          ELSE <<EventNoGeo(it)>>)
         \o ldEvents(Tail(items), radius)

(* The anchor strategy: an anchor with geo is skipped if distance > radiusKm *)
RECURSIVE anchorEvents(_, _)
anchorEvents(items, radius) ==
    IF items = <<>> THEN <<>>
    ELSE LET it == Head(items) IN
         (IF it.geo # "none"
          THEN (IF Gt(toKm(it.geo), radius) THEN <<>> ELSE <<EventGeo(it)>>)
          ELSE <<EventNoGeo(it)>>)
         \o anchorEvents(Tail(items), radius)

(* The page.evaluate of the extraction: if (ldEvents.length) return ldEvents; *)
(* a throw inside the JSON-LD try discards what it had collected             *)
extractEvents(ld, ldThrows, anchors, radius) ==
    IF ~ldThrows /\ ldEvents(ld, radius) # <<>>
    THEN ldEvents(ld, radius)
    ELSE anchorEvents(anchors, radius)

(* Anchors of a page: any on a page without JSON-LD events, at most one      *)
(* beside JSON-LD events.                                                    *)
AnchorsBeside(ld) ==
    IF ld = <<>> THEN SeqsUpTo(AnchorItem, MaxEvents) ELSE SeqsUpTo(AnchorItem, 1)

(* events.filter(ev => (!ev.fecha || !ev.lugar || !ev.enlace) && ev.enlace)  *)
(* .slice(0, 15), as indexes into events                                     *)
EnrichLimit == 15
BatchSize   == 5

Needs(ev) == (ev.fecha = "" \/ ev.lugar = "" \/ ev.enlace = "") /\ ev.enlace # ""

RECURSIVE FilterIdx(_, _)
FilterIdx(evs, i) ==
    IF i > Len(evs) THEN <<>>
    ELSE (IF Needs(evs[i]) THEN <<i>> ELSE <<>>) \o FilterIdx(evs, i + 1)

needEnrichment(evs) ==
    LET all == FilterIdx(evs, 1) IN SubSeq(all, 1, Min(Len(all), EnrichLimit))

(* No chunking: every position in the first batch. *)
Chunk_whole(n, k) == IF k = 1 THEN 1..n ELSE {}

(* chunkArray: the positions of needEnrichment that make up batch k *)
Chunk(n, k) == {j \in 1..n : (k - 1) * BatchSize < j /\ j <= k * BatchSize}

InitEvents ==
    /\ entry = "events" /\ pc = "launch"
    /\ radiusKm \in Radii
    /\ events = <<>> /\ fetch = <<>> /\ batch = 0 /\ scrolled = 0
    /\ days = 1 /\ concurrency = 1 /\ dateRanges = <<>> /\ blocks = <<>>
    /\ results = <<>> /\ site = "empty"
    /\ Created /\ NoExtraction /\ NoSingle /\ NoServer

(* const maxScrolls = 12 *)
maxScrolls == 12

EventsFrame == UNCHANGED <<entry, multiVars, singleVars, radiusKm, srvVars>>

(* catch (e) { if (browser) try { await browser.close() } catch {}; return [] } *)
CatchAll == browser' = (IF browser = "open" THEN "closed" ELSE browser) /\ Resolve(<<>>)

(* browser = await chromium.launch(...), inside the try *)
EventsLaunch ==
    /\ entry = "events" /\ pc = "launch"
    /\ \/ browser' = "open" /\ pc' = "goto" /\ UNCHANGED <<outcome, returned, failure>>
       \/ CatchAll
    /\ EventsFrame /\ UNCHANGED <<events, fetch, batch, scrolled>> /\ ClearExtraction

(* newContext, newPage, route and page.goto(URL): the initial load *)
EventsGoto ==
    /\ entry = "events" /\ pc = "goto"
    /\ \/ pc' = "consent" /\ UNCHANGED <<browser, outcome, returned, failure>>
       \/ CatchAll
    /\ EventsFrame /\ UNCHANGED <<events, fetch, batch, scrolled>> /\ ClearExtraction

(* try { await acceptCookies(page) } catch {}: whatever it does, the job    *)
(* goes on                                                                   *)
EventsConsent ==
    /\ entry = "events" /\ pc = "consent"
    /\ pc' = "pause"
    /\ UNCHANGED <<browser, outcome, returned, failure>>
    /\ EventsFrame /\ UNCHANGED <<events, fetch, batch, scrolled>> /\ ClearExtraction

(* await page.waitForTimeout(2000), outside every inner try *)
EventsPause ==
    /\ entry = "events" /\ pc = "pause"
    /\ \/ pc' = "idle" /\ UNCHANGED <<browser, outcome, returned, failure>>
       \/ CatchAll
    /\ EventsFrame /\ UNCHANGED <<events, fetch, batch, scrolled>> /\ ClearExtraction

(* try { await page.waitForLoadState('networkidle', ...) } catch {} *)
EventsIdle ==
    /\ entry = "events" /\ pc = "idle"
    /\ pc' = "scroll"
    /\ UNCHANGED <<browser, outcome, returned, failure>>
    /\ EventsFrame /\ UNCHANGED <<events, fetch, batch, scrolled>> /\ ClearExtraction

(* for (let i = 0; i < maxScrolls; i++) { await page.evaluate(scrollBy);    *)
(* await page.waitForTimeout(1200) }: a throw of either goes to the catch   *)
(* of the function                                                           *)
EventsScroll ==
    /\ entry = "events" /\ pc = "scroll"
    /\ \/ /\ scrolled' = scrolled + 1
          /\ pc' = (IF scrolled + 1 < maxScrolls THEN "scroll" ELSE "marker")
          /\ UNCHANGED <<browser, outcome, returned, failure>>
       \/ CatchAll /\ UNCHANGED scrolled
    /\ EventsFrame /\ UNCHANGED <<events, fetch, batch>> /\ ClearExtraction

(* The waitForSelector for the event anchors and the loop over the listing  *)
(* selectors, each in a try with an empty catch                              *)
EventsMarker ==
    /\ entry = "events" /\ pc = "marker"
    /\ pc' = "content"
    /\ UNCHANGED <<browser, outcome, returned, failure>>
    /\ EventsFrame /\ UNCHANGED <<events, fetch, batch, scrolled>> /\ ClearExtraction

(* const html = await page.content(); if too short: close and return [] *)
EventsContent ==
    /\ entry = "events" /\ pc = "content"
    /\ \/ pc' = "extract" /\ UNCHANGED <<browser, outcome, returned, failure>>
       \/ CloseAndReturn(<<>>)
       \/ CatchAll
    /\ EventsFrame /\ UNCHANGED <<events, fetch, batch, scrolled>> /\ ClearExtraction

NewFetch(i) == [ev |-> i, st |-> "idle", page |-> "none"]

(* let events = await page.evaluate(...), and needEnrichment *)
EventsExtract ==
    /\ entry = "events" /\ pc = "extract"
    /\ \/ /\ CatchAll
          /\ UNCHANGED <<events, fetch, batch, scrolled>> /\ ClearExtraction
       \/ \E ld \in SeqsUpTo(LdItem, MaxEvents) : \E anchors \in AnchorsBeside(ld) :
          \E ldThrows \in BOOLEAN :
            LET evs == extractEvents(ld, ldThrows, anchors, radiusKm) IN
            /\ events' = evs
            /\ fetch' = [j \in 1..Len(needEnrichment(evs)) |-> NewFetch(needEnrichment(evs)[j])]
            /\ batch' = 0
            /\ primaryOut' = IF ldThrows THEN <<>> ELSE ldEvents(ld, radiusKm)
            /\ fallbackOut' = anchorEvents(anchors, radiusKm)
            /\ picked' = evs
            /\ pickedDate' = -1
            /\ pc' = "enrich"
            /\ UNCHANGED <<browser, outcome, returned, failure, scrolled>>
    /\ EventsFrame

Settled(j) == fetch[j].st \in {"done", "failed"}

(* for (const batch of chunkArray(needEnrichment, concurrency)): the next    *)
(* batch starts when Promise.all of the one before has resolved; batch.map   *)
(* starts every fetch of the batch.                                          *)
EnrichStartBatch ==
    /\ entry = "events" /\ pc = "enrich"
    /\ \A j \in Chunk(Len(fetch), batch) : Settled(j)
    /\ Chunk(Len(fetch), batch + 1) # {}
    /\ batch' = batch + 1
    /\ fetch' = [j \in 1..Len(fetch) |->
                   IF j \in Chunk(Len(fetch), batch + 1)
                   THEN [fetch[j] EXCEPT !.st = "newPage"] ELSE fetch[j]]
    /\ UNCHANGED <<pc, browser, outcome, returned, failure, events, scrolled>>
    /\ EventsFrame /\ ClearExtraction

(* The detail page of an event named "Solid" always opens and loads and     *)
(* shows the date and the venue; any other detail page may fail at any      *)
(* step and show anything.                                                   *)
Reliable(j) == events[fetch[j].ev].nombre = "Solid"
Details(j) ==
    IF Reliable(j) THEN {<<"2026-12-01", "Arena">>} ELSE Fechas \X Venues

(* const p2 = await context.newPage(); a throw ends the fetch in its catch *)
EnrichNewPage(j) ==
    /\ entry = "events" /\ j \in 1..Len(fetch) /\ fetch[j].st = "newPage"
    /\ \/ fetch' = [fetch EXCEPT ![j].st = "goto", ![j].page = "open"]
       \/ ~Reliable(j) /\ fetch' = [fetch EXCEPT ![j].st = "failed"]
    /\ UNCHANGED <<pc, browser, outcome, returned, failure, events, batch, scrolled>>
    /\ EventsFrame /\ ClearExtraction

(* What the detail page gives replaces what the record had. *)
Or_overwrite(a, b) == b

(* ev.fecha = ev.fecha || detail.fecha, and so on *)
Or(a, b) == IF a # "" THEN a ELSE b

(* out.enlace = obj.url || location.href of the detail page *)
DetailHref == "https://www.songkick.com/concerts/1/detail"

(* The assignments made before p2.close(): a throw of close comes after them. *)
EnrichDetail_assignFirst(j) ==
    /\ entry = "events" /\ j \in 1..Len(fetch) /\ fetch[j].st = "goto"
    /\ \E detail \in Details(j) :
         /\ events' = [events EXCEPT ![fetch[j].ev].fecha = Or(@, detail[1]),
                                     ![fetch[j].ev].lugar = Or(@, detail[2]),
                                     ![fetch[j].ev].enlace = Or(@, DetailHref)]
         /\ \/ fetch' = [fetch EXCEPT ![j].st = "done", ![j].page = "closed"]
            \/ ~Reliable(j) /\ fetch' = [fetch EXCEPT ![j].st = "failed"]
    /\ UNCHANGED <<pc, browser, outcome, returned, failure, batch, scrolled>>
    /\ EventsFrame /\ ClearExtraction

(* p2.goto(ev.enlace), the caught network-idle wait, p2.evaluate, p2.close() *)
(* and the assignments to ev.  A throw of goto, evaluate or close ends the   *)
(* fetch in its catch, before the assignments and with the page not closed.  *)
EnrichDetail(j) ==
    /\ entry = "events" /\ j \in 1..Len(fetch) /\ fetch[j].st = "goto"
    /\ \/ \E detail \in Details(j) :
            /\ fetch' = [fetch EXCEPT ![j].st = "done", ![j].page = "closed"]
            /\ events' = [events EXCEPT ![fetch[j].ev].fecha = Or(@, detail[1]),
                                        ![fetch[j].ev].lugar = Or(@, detail[2]),
                                        ![fetch[j].ev].enlace = Or(@, DetailHref)]
       \/ /\ ~Reliable(j)
          /\ fetch' = [fetch EXCEPT ![j].st = "failed"]
          /\ UNCHANGED events
    /\ UNCHANGED <<pc, browser, outcome, returned, failure, batch, scrolled>>
    /\ EventsFrame /\ ClearExtraction

(* After the last batch: await browser.close(); return events *)
EventsFinish ==
    /\ entry = "events" /\ pc = "enrich"
    /\ \A j \in Chunk(Len(fetch), batch) : Settled(j)
    /\ Chunk(Len(fetch), batch + 1) = {}
    /\ CloseAndReturn(events)
    /\ EventsFrame /\ UNCHANGED <<events, fetch, batch, scrolled>> /\ ClearExtraction

NextEvents ==
    \/ EventsLaunch \/ EventsGoto \/ EventsConsent \/ EventsPause \/ EventsIdle \/ EventsScroll
    \/ EventsMarker \/ EventsContent \/ EventsExtract
    \/ EnrichStartBatch \/ EventsFinish
    \/ \E j \in 1..EnrichLimit : EnrichNewPage(j) \/ EnrichDetail(j)

SpecEvents == InitEvents /\ [][NextEvents]_vars

----------------------------------------------------------------------------
(* The enrichment of scrapeSongkick on its own, from the state the           *)
(* extraction leaves: a page with up to MaxPartial event anchors without a   *)
(* venue, at most one of them with an unreliable detail page.                *)

MaxPartial == 16    \* events of the page that need enrichment

CompleteEvent ==
    EventNoGeo([name |-> "Solid", date |-> "2026-12-01", venue |-> "Arena", url |-> "/concerts/1"])
SolidPartial ==
    EventNoGeo([name |-> "Solid", date |-> "2026-12-01", venue |-> "", url |-> "/concerts/1"])
BandPartial ==
    EventNoGeo([name |-> "Band", date |-> "", venue |-> "", url |-> "/concerts/1"])

(* lead complete events, then n partial ones, the one at position bad        *)
(* (0: none) being the one with the unreliable page                          *)
PageEvents(lead, n, bad) ==
    [i \in 1..(lead + n) |->
        IF i <= lead THEN CompleteEvent
        ELSE IF i - lead = bad THEN BandPartial ELSE SolidPartial]

InitEnrich ==
    /\ entry = "events" /\ pc = "enrich"
    /\ radiusKm = 50000
    /\ \E lead \in 0..1 : \E n \in 0..MaxPartial : \E bad \in 0..n :
         /\ events = PageEvents(lead, n, bad)
         /\ fetch = [j \in 1..Len(needEnrichment(PageEvents(lead, n, bad))) |->
                        NewFetch(needEnrichment(PageEvents(lead, n, bad))[j])]
    /\ batch = 0 /\ scrolled = maxScrolls
    /\ days = 1 /\ concurrency = 1 /\ dateRanges = <<>> /\ blocks = <<>>
    /\ results = <<>> /\ site = "empty"
    /\ browser = "open" /\ outcome = "pending" /\ returned = <<>> /\ failure = "none"
    /\ NoExtraction /\ NoSingle /\ NoServer

NextEnrich ==
    \/ EnrichStartBatch \/ EventsFinish
    \/ \E j \in 1..EnrichLimit : EnrichNewPage(j) \/ EnrichDetail(j)

SpecEnrich == InitEnrich /\ [][NextEnrich]_vars

----------------------------------------------------------------------------
(* The dispatch server (server/index.js): auth, routes, runNodeScript *)

MaxRequests == 2    \* requests received by the server in a run
MaxChunks   == 2    \* writes of a script to its stdout

(* runNodeScript(relPath, args = [], env = {}, timeoutMs = 55000) *)
DefaultTimeoutMs == 55000

(* The timeout /hotel, /events and /ticketmaster pass to runNodeScript *)
RouteTimeoutMs == 55000

(* done({ code: 124, ... }) of the timer, done({ code: -1, ... }) of 'error' *)
TimedOutCode   == 124
SpawnErrorCode == 0 - 1

(* Values of the x-api-key header ("": no header) and of the environment *)
Keys        == {"", "k1", "k2"}
ApiKeys     == {"", "k1"}
EnvTimeouts == {0, 30000, 1200000}

ScrapeRoutes == {"/hotel", "/events", "/ticketmaster"}
FlagRoutes   == {"/select-hotel", "/clear-selection"}

Req(route, key, bodyOk, wellFormed, saveToDb, params) ==
    [route |-> route, key |-> key, bodyOk |-> bodyOk, wellFormed |-> wellFormed,
     saveToDb |-> saveToDb, params |-> params]

(* bodyOk: the body has the fields the handler requires.  wellFormed: the   *)
(* fields that become arguments of the script are strings spawn accepts.    *)
Requests ==
    {Req("/health", k, TRUE, TRUE, FALSE, "") : k \in Keys}
    \cup {Req(r, k, b, TRUE, FALSE, "") : r \in FlagRoutes, k \in Keys, b \in BOOLEAN}
    \cup {Req("/amadeus", k, b, w, sv, q) :
            k \in Keys, b \in BOOLEAN, w \in BOOLEAN, sv \in BOOLEAN, q \in {"p1", "p2"}}
    \cup {Req(r, k, b, w, FALSE, "") :
            r \in ScrapeRoutes, k \in Keys, b \in BOOLEAN, w \in BOOLEAN}

(* JSON values, and what a script writes to its stdout: text that is not    *)
(* JSON (a log line) or a JSON document.                                     *)
JsonArray(items) == [t |-> "array", v |-> items]
JsonObject == [t |-> "object", v |-> <<>>]
WithRooms == [date |-> 0, rooms |-> JsonArray(<<"Double", "Suite">>)]
NoRooms   == [date |-> 0, rooms |-> JsonNull]

TextChunk == [kind |-> "text", value |-> JsonNull]
JsonChunk(value) == [kind |-> "json", value |-> value]
Chunks ==
    {TextChunk, JsonChunk(JsonObject), JsonChunk(JsonArray(<<WithRooms, NoRooms>>))}

(* What a script writes: /amadeus passes stdout on as text, unparsed. *)
ChunksOf(script) ==
    IF script = "scripts/amadeus_hotels.js" THEN {TextChunk} ELSE Chunks

(* try { return JSON.parse(String(str || '')) } catch { return fallback }:   *)
(* the text parses only if it is one JSON document and nothing else.         *)
parseJsonSafe(str, fallback) ==
    IF Len(str) = 1 /\ str[1].kind = "json" THEN str[1].value ELSE fallback

IsArray(x) == x.t = "array"

(* The parsed output taken as it comes, array or not. *)
ScriptData_unchecked(stdout) == parseJsonSafe(stdout, JsonArray(<<>>))

(* Array.isArray(parseJsonSafe(stdout, null)) ? parseJsonSafe(stdout, []) : [] *)
ScriptData(stdout) ==
    IF IsArray(parseJsonSafe(stdout, JsonNull))
    THEN parseJsonSafe(stdout, JsonArray(<<>>))
    ELSE JsonArray(<<>>)

(* data.reduce((acc, d) => acc + (Array.isArray(d?.rooms) ? d.rooms.length : 0), 0) *)
RECURSIVE RoomCount(_)
RoomCount(items) ==
    IF items = <<>> THEN 0
    ELSE (IF IsArray(Head(items).rooms) THEN Len(Head(items).rooms.v) ELSE 0)
         + RoomCount(Tail(items))

ScriptCount(route, data) ==
    IF ~IsArray(data) THEN 0
    ELSE IF route = "/hotel" THEN RoomCount(data.v) ELSE Len(data.v)

(* !code ? 200 : 500: the null code of a script ended by a signal passes. *)
StatusOf_falsy(code) == IF code \in {0, NullCode} THEN 200 ELSE 500

(* code === 0 ? 200 : 500, and ok: code === 0 *)
StatusOf(code) == IF code = 0 THEN 200 ELSE 500
OkOf(code) == code = 0

(* The body of the response of /hotel, /events and /ticketmaster; JSON drops *)
(* error: undefined.                                                         *)
ScrapeResponse(route, r) ==
    LET data == ScriptData(r.stdout) IN
    IF r.code = 0
    THEN [status |-> StatusOf(r.code), ok |-> OkOf(r.code), data |-> data,
          count |-> ScriptCount(route, data), code |-> r.code]
    ELSE [status |-> StatusOf(r.code), ok |-> OkOf(r.code), data |-> data,
          count |-> ScriptCount(route, data), code |-> r.code, error |-> r.stderr]

(* catch (e) { return res.status(500).json({ ok: false, error: String(...) }) } *)
CaughtResponse == [status |-> 500, ok |-> FALSE, error |-> "exception"]

(* const json = { ok: code === 0, output: stdout, error: stderr, code, durationMs } *)
AmadeusJson(r) == [ok |-> OkOf(r.code), output |-> r.stdout, error |-> r.stderr, code |-> r.code]
AmadeusResponse(status, json) ==
    [status |-> status, ok |-> json.ok, output |-> json.output, error |-> json.error,
     code |-> json.code]

Authorized(r) == apiKey # "" /\ r.key = apiKey

JobIdle ==
    /\ entry = "server" /\ pc = "idle" /\ days = 1 /\ concurrency = 1 /\ dateRanges = <<>>
    /\ blocks = <<>> /\ results = <<>> /\ site = "empty"
    /\ Created /\ NoExtraction /\ NoSingle /\ NoEvents

InitServer ==
    /\ JobIdle
    /\ apiKey \in ApiKeys /\ envTimeout \in EnvTimeouts
    /\ req = NoReq /\ srv = "idle" /\ reached = "none"
    /\ child = NoChild /\ run = NoRun /\ response = NoResponse
    /\ lastAmadeusCache = NoCache /\ stopFlags = {} /\ served = 0
    /\ env = NoEnv /\ argv = NoArgv /\ net = <<>> /\ upstream = 0
    /\ handlers = <<>> /\ amadeusCache = <<>> /\ now = 0

ServerFrame ==
    UNCHANGED <<jobVars, multiVars, singleVars, eventVars, pipeVars, apiKey, envTimeout,
                env, argv, net, upstream,
                handlers, amadeusCache, now>>

(* A request arrives; the one before it has been answered. *)
Receive ==
    /\ entry = "server" /\ srv \in {"idle", "done"} /\ served < MaxRequests
    /\ \E r \in Requests : req' = r
    /\ srv' = "auth" /\ reached' = "none" /\ served' = served + 1
    /\ child' = NoChild /\ run' = NoRun /\ response' = NoResponse
    /\ UNCHANGED <<lastAmadeusCache, stopFlags>>
    /\ ServerFrame

(* The key compared only when the request carries one. *)
Auth_headerOptional ==
    /\ entry = "server" /\ srv = "auth"
    /\ IF apiKey = ""
       THEN response' = [status |-> 500, ok |-> FALSE, error |-> "WORKER_API_KEY missing"]
            /\ srv' = "done"
       ELSE IF req.key # "" /\ req.key # apiKey
       THEN response' = [status |-> 401, ok |-> FALSE, error |-> "unauthorized"]
            /\ srv' = "done"
       ELSE srv' = "route" /\ UNCHANGED response
    /\ UNCHANGED <<req, reached, child, run, lastAmadeusCache, stopFlags, served>>
    /\ ServerFrame

(* app.use((req, res, next) => ...): cors() and express.json(), registered  *)
(* before it, pass the request on.                                           *)
Auth ==
    /\ entry = "server" /\ srv = "auth"
    /\ IF apiKey = ""
       THEN response' = [status |-> 500, ok |-> FALSE, error |-> "WORKER_API_KEY missing"]
            /\ srv' = "done"
       ELSE IF req.key # apiKey
       THEN response' = [status |-> 401, ok |-> FALSE, error |-> "unauthorized"]
            /\ srv' = "done"
       ELSE srv' = "route" /\ UNCHANGED response
    /\ UNCHANGED <<req, reached, child, run, lastAmadeusCache, stopFlags, served>>
    /\ ServerFrame

(* app.get('/health', ...) *)
Health ==
    /\ entry = "server" /\ srv = "route" /\ req.route = "/health"
    /\ reached' = req.route
    /\ response' = [status |-> 200, ok |-> TRUE]
    /\ srv' = "done"
    /\ UNCHANGED <<req, child, run, lastAmadeusCache, stopFlags, served>>
    /\ ServerFrame

BadRequest == [status |-> 400, ok |-> FALSE, error |-> "required"]

(* app.post('/select-hotel', ...): setStopForUser *)
SelectHotel ==
    /\ entry = "server" /\ srv = "route" /\ req.route = "/select-hotel"
    /\ reached' = req.route
    /\ IF ~req.bodyOk
       THEN response' = BadRequest /\ UNCHANGED stopFlags
       ELSE response' = [status |-> 200, ok |-> TRUE] /\ stopFlags' = stopFlags \cup {"u1"}
    /\ srv' = "done"
    /\ UNCHANGED <<req, child, run, lastAmadeusCache, served>>
    /\ ServerFrame

(* app.post('/clear-selection', ...): clearStopForUser *)
ClearSelection_flagFirst ==
    /\ entry = "server" /\ srv = "route" /\ req.route = "/clear-selection"
    /\ reached' = req.route
    /\ response' = (IF ~req.bodyOk THEN BadRequest ELSE [status |-> 200, ok |-> TRUE])
    /\ stopFlags' = stopFlags \ {"u1"}
    /\ srv' = "done"
    /\ UNCHANGED <<req, child, run, lastAmadeusCache, served>>
    /\ ServerFrame

ClearSelection ==
    /\ entry = "server" /\ srv = "route" /\ req.route = "/clear-selection"
    /\ reached' = req.route
    /\ IF ~req.bodyOk
       THEN response' = BadRequest /\ UNCHANGED stopFlags
       ELSE response' = [status |-> 200, ok |-> TRUE] /\ stopFlags' = stopFlags \ {"u1"}
    /\ srv' = "done"
    /\ UNCHANGED <<req, child, run, lastAmadeusCache, served>>
    /\ ServerFrame

(* The synchronous part of runNodeScript: spawn, the empty stdout and the timer *)
runNodeScript(script, timeoutMs) ==
    /\ child' = [st |-> "running", script |-> script, stdout |-> <<>>, timeoutMs |-> timeoutMs]
    /\ run' = NoRun

(* What the default error handler of the framework answers *)
ErrorHandlerResponse == [status |-> 500]

(* app.post('/amadeus', ...) up to the await of runNodeScript.  The handler  *)
(* has no try: a throw of spawn rejects the promise of the handler, which    *)
(* the framework either passes to its error handler or leaves unhandled, and *)
(* an unhandled rejection ends the server process.                           *)
Amadeus ==
    /\ entry = "server" /\ srv = "route" /\ req.route = "/amadeus"
    /\ reached' = req.route
    /\ IF ~req.bodyOk
       THEN response' = BadRequest /\ srv' = "done" /\ UNCHANGED <<child, run>>
       ELSE IF ~req.saveToDb /\ lastAmadeusCache.key = req.params
               /\ lastAmadeusCache.response # NoResponse
       THEN response' = AmadeusResponse(200, lastAmadeusCache.response)
            /\ srv' = "done" /\ UNCHANGED <<child, run>>
       ELSE IF ~req.wellFormed
       THEN /\ \/ response' = ErrorHandlerResponse /\ srv' = "done"
               \/ response' = response /\ srv' = "crashed"
            /\ UNCHANGED <<child, run>>
       ELSE runNodeScript("scripts/amadeus_hotels.js", DefaultTimeoutMs)
            /\ srv' = "running" /\ UNCHANGED response
    /\ UNCHANGED <<req, lastAmadeusCache, stopFlags, served>>
    /\ ServerFrame

ScriptOf(route) ==
    CASE route = "/hotel"        -> "scripts/hotel_propio.js"
      [] route = "/events"       -> "scripts/scrape_songkick.js"
      [] route = "/ticketmaster" -> "scripts/scrapeo_geo.js"

(* app.post('/hotel' | '/events' | '/ticketmaster', ...) up to the await of *)
(* runNodeScript; a throw of spawn goes to the catch of the handler.         *)
PostScrape ==
    /\ entry = "server" /\ srv = "route" /\ req.route \in ScrapeRoutes
    /\ reached' = req.route
    /\ IF ~req.bodyOk
       THEN response' = BadRequest /\ srv' = "done" /\ UNCHANGED <<child, run>>
       ELSE IF ~req.wellFormed
       THEN response' = CaughtResponse /\ srv' = "done" /\ UNCHANGED <<child, run>>
       ELSE runNodeScript(ScriptOf(req.route), RouteTimeoutMs)
            /\ srv' = "running" /\ UNCHANGED response
    /\ UNCHANGED <<req, lastAmadeusCache, stopFlags, served>>
    /\ ServerFrame

(* done without its flag: every call sets the result. *)
done_noFlag(code, stderr) ==
    run' = [finished |-> TRUE, code |-> code, stdout |-> child.stdout, stderr |-> stderr]

(* const done = (result) => { if (finished) return; finished = true; ... } *)
done(code, stderr) ==
    IF run.finished THEN UNCHANGED run
    ELSE run' = [finished |-> TRUE, code |-> code, stdout |-> child.stdout, stderr |-> stderr]

ChildFrame ==
    /\ UNCHANGED <<req, srv, reached, response, lastAmadeusCache, stopFlags, served>>
    /\ ServerFrame

(* child.stdout.on('data', d => { stdout += d.toString() }): output arrives *)
(* until the pipe closes, also after the script was killed                   *)
ChildData ==
    /\ entry = "server" /\ child.st \in {"running", "killed"}
    /\ Len(child.stdout) < MaxChunks
    /\ \E c \in ChunksOf(child.script) : child' = [child EXCEPT !.stdout = Append(@, c)]
    /\ UNCHANGED run
    /\ ChildFrame

(* child.on('close', code => done({ code, stdout, stderr })): the script     *)
(* exits with a code, or is ended by a signal (code null).                   *)
ChildClose ==
    /\ entry = "server" /\ child.st = "running"
    /\ \E code \in {0, 1, NullCode} : done(code, "stderr")
    /\ child' = [child EXCEPT !.st = "exited"]
    /\ ChildFrame

(* child.on('error', err => done({ code: -1, ... })): the script could not   *)
(* be started.                                                               *)
ChildError ==
    /\ entry = "server" /\ child.st = "running" /\ child.stdout = <<>>
    /\ done(SpawnErrorCode, "spawn error")
    /\ child' = [child EXCEPT !.st = "failed"]
    /\ ChildFrame

(* The timer without its child.kill *)
TimerFire_noKill ==
    /\ entry = "server" /\ child.st = "running" /\ ~run.finished
    /\ done(TimedOutCode, "Timed out")
    /\ UNCHANGED child
    /\ ChildFrame

(* The timer: child.kill('SIGKILL'); done({ code: 124, ... 'Timed out' }) *)
TimerFire ==
    /\ entry = "server" /\ child.st = "running" /\ ~run.finished
    /\ done(TimedOutCode, "Timed out")
    /\ child' = [child EXCEPT !.st = "killed"]
    /\ ChildFrame

(* The 'close' event of a script that was killed or never started: done     *)
(* returns at once.                                                          *)
ChildCloseLate ==
    /\ entry = "server" /\ child.st \in {"killed", "failed"}
    /\ done(NullCode, "")
    /\ child' = [child EXCEPT !.st = "closed"]
    /\ ChildFrame

(* /amadeus after the await, storing whatever saveToDb is *)
AmadeusRespond_storeAlways ==
    /\ entry = "server" /\ srv = "running" /\ req.route = "/amadeus" /\ run.finished
    /\ lastAmadeusCache' = [key |-> req.params, response |-> AmadeusJson(run)]
    /\ response' = AmadeusResponse(StatusOf(run.code), AmadeusJson(run))
    /\ srv' = "done"
    /\ UNCHANGED <<req, reached, child, run, stopFlags, served>>
    /\ ServerFrame

(* /amadeus after the await: the cache and the response *)
AmadeusRespond ==
    /\ entry = "server" /\ srv = "running" /\ req.route = "/amadeus" /\ run.finished
    /\ lastAmadeusCache' =
         IF ~req.saveToDb THEN [key |-> req.params, response |-> AmadeusJson(run)]
         ELSE lastAmadeusCache
    /\ response' = AmadeusResponse(StatusOf(run.code), AmadeusJson(run))
    /\ srv' = "done"
    /\ UNCHANGED <<req, reached, child, run, stopFlags, served>>
    /\ ServerFrame

(* /hotel, /events, /ticketmaster after the await *)
ScrapeRespond ==
    /\ entry = "server" /\ srv = "running" /\ req.route \in ScrapeRoutes /\ run.finished
    /\ response' = ScrapeResponse(req.route, run)
    /\ srv' = "done"
    /\ UNCHANGED <<req, reached, child, run, lastAmadeusCache, stopFlags, served>>
    /\ ServerFrame

NextServer ==
    \/ Receive \/ Auth \/ Health \/ SelectHotel \/ ClearSelection \/ Amadeus \/ PostScrape
    \/ ChildData \/ ChildClose \/ ChildError \/ TimerFire \/ ChildCloseLate
    \/ AmadeusRespond \/ ScrapeRespond

SpecServer == InitServer /\ [][NextServer]_vars

(* The server with its scheduling: a handler that can take its next step     *)
(* takes it, and a timer that is armed fires unless it is cleared.  Nothing  *)
(* is assumed of the scripts, which may never write and never end.           *)
ServerSteps ==
    \/ Auth \/ Health \/ SelectHotel \/ ClearSelection \/ Amadeus \/ PostScrape
    \/ AmadeusRespond \/ ScrapeRespond

SpecAnswer ==
    InitServer /\ [][NextServer]_vars /\ WF_vars(ServerSteps) /\ WF_vars(TimerFire)

----------------------------------------------------------------------------
(* runNodeScript on its own: one call, from the return of its synchronous    *)
(* part, with the events of the script and the timer in every order.  The    *)
(* timer fires if nothing ends the call before.                              *)

Spawning == {r \in Requests : r.route \in ScrapeRoutes \cup {"/amadeus"} /\ r.key = "k1"
                              /\ r.bodyOk /\ r.wellFormed /\ ~r.saveToDb /\ r.params \in {"", "p1"}}

InitRun ==
    /\ JobIdle
    /\ apiKey = "k1" /\ envTimeout = 0
    /\ req \in Spawning
    /\ srv = "running" /\ reached = req.route
    /\ child = [st |-> "running",
                script |-> IF req.route = "/amadeus" THEN "scripts/amadeus_hotels.js"
                           ELSE ScriptOf(req.route),
                stdout |-> <<>>,
                timeoutMs |-> IF req.route = "/amadeus" THEN DefaultTimeoutMs ELSE RouteTimeoutMs]
    /\ run = NoRun /\ response = NoResponse
    /\ lastAmadeusCache = NoCache /\ stopFlags = {} /\ served = 1
    /\ env = NoEnv /\ argv = NoArgv /\ net = <<>> /\ upstream = 0
    /\ handlers = <<>> /\ amadeusCache = <<>> /\ now = 0

NextRun == ChildData \/ ChildClose \/ ChildError \/ TimerFire \/ ChildCloseLate

SpecRun == InitRun /\ [][NextRun]_vars /\ WF_vars(TimerFire)

----------------------------------------------------------------------------
(* The scripts run as processes: the CLI of hotel_propio.js and of           *)
(* scrape_songkick.js around the entry points                                *)

CliScripts == {"scripts/hotel_propio.js", "scripts/scrape_songkick.js"}

(* JSON.stringify of a price result and of an events array, as the value    *)
(* JSON.parse gives back                                                     *)
PricesJson(prices) ==
    JsonArray([i \in 1..Len(prices) |->
                 [date |-> prices[i].date, rooms |-> JsonArray(prices[i].rooms)]])
EventsJson(evs) == JsonArray(evs)

(* node <script> <args>: the process is running, main has not started.      *)
(* days === 1 selects scrapeBookingPrices.                                   *)
InitCli ==
    /\ entry = "cli" /\ pc = "main"
    /\ \E script \in CliScripts :
         /\ child = [st |-> "running", script |-> script, stdout |-> <<>>, timeoutMs |-> 0]
         /\ IF script = "scripts/hotel_propio.js"
            THEN /\ days \in 1..MaxDays /\ concurrency \in 1..MaxConcurrency
                 /\ site \in (IF days = 1 THEN {"rooms"}
                              ELSE IF days <= MaxRichWindow THEN {"rooms", "empty"}
                              ELSE {"empty"})
                 /\ radiusKm = 0
            ELSE /\ days = 1 /\ concurrency = 1 /\ site = "empty"
                 /\ radiusKm \in Radii
    /\ dateRanges = <<>> /\ blocks = <<>> /\ results = <<>>
    /\ events = <<>> /\ fetch = <<>> /\ batch = 0 /\ scrolled = 0
    /\ Created /\ NoExtraction /\ NoSingle
    /\ apiKey = "" /\ envTimeout = 0 /\ req = NoReq /\ srv = "idle" /\ reached = "none"
    /\ run = NoRun /\ response = NoResponse
    /\ lastAmadeusCache = NoCache /\ stopFlags = {} /\ served = 0
    /\ env = NoEnv /\ argv = NoArgv /\ net = <<>> /\ upstream = 0
    /\ handlers = <<>> /\ amadeusCache = <<>> /\ now = 0

CliFrame ==
    UNCHANGED <<browser, outcome, returned, failure, multiVars, singleVars, eventVars,
                apiKey, envTimeout, req, srv, reached, response, lastAmadeusCache,
                stopFlags, served, env, argv, net, upstream,
                handlers, amadeusCache, now>>

(* The async main of the CLI up to the call of the entry point *)
CliMain ==
    /\ entry = "cli" /\ pc = "main"
    /\ entry' = (IF child.script = "scripts/scrape_songkick.js" THEN "events"
                 ELSE IF days = 1 THEN "single" ELSE "multi")
    /\ pc' = "launch"
    /\ UNCHANGED <<child, run>>
    /\ CliFrame /\ ClearExtraction

(* hotel_propio.js after the entry point: insertUserHotelPrices and its     *)
(* console.log lines, or the catch with console.error; nothing else is      *)
(* written to stdout and the process ends with code 0.                       *)
CliHotelEnd ==
    /\ entry \in {"single", "multi"} /\ child.st = "running" /\ outcome # "pending"
    /\ child' = [child EXCEPT !.st = "exited", !.stdout = <<TextChunk>>]
    /\ run' = [finished |-> TRUE, code |-> 0, stdout |-> <<TextChunk>>,
               stderr |-> IF outcome = "rejected" THEN "stderr" ELSE ""]
    /\ UNCHANGED <<entry, pc>>
    /\ CliFrame /\ ClearExtraction

(* scrape_songkick.js after scrapeSongkick: console.log(JSON.stringify(events)); *)
(* the process ends with code 0.                                             *)
CliSongkickEnd ==
    /\ entry = "events" /\ child.st = "running" /\ outcome # "pending"
    /\ child' = [child EXCEPT !.st = "exited", !.stdout = <<JsonChunk(EventsJson(returned))>>]
    /\ run' = [finished |-> TRUE, code |-> 0, stdout |-> <<JsonChunk(EventsJson(returned))>>,
               stderr |-> ""]
    /\ UNCHANGED <<entry, pc>>
    /\ CliFrame /\ ClearExtraction

NextCli ==
    \/ CliMain \/ CliHotelEnd \/ CliSongkickEnd
    \/ NextSingle \/ NextMulti \/ NextEvents

SpecCli == InitCli /\ [][NextCli]_vars

----------------------------------------------------------------------------
(* The scripts that query upstream services: the CLI of scrapeo_geo.js       *)
(* (Ticketmaster) and of amadeus_hotels.js (Amadeus, getHotelsByGeocode)     *)

MaxFound == 2    \* events or hotels an upstream service has for a query

(* const pageSize = 200, and the safety limit if (page > 50) break *)
PageSize  == 200
PageLimit == 50

Envs == [TICKETMASTER_API_KEY : {"", "tk"}, AMADEUS_API_KEY : {"", "id"},
         AMADEUS_API_SECRET : {"", "secret"}]

(* const AMADEUS_AVAILABLE = !!(AMADEUS_CLIENT_ID && AMADEUS_CLIENT_SECRET) *)
AMADEUS_AVAILABLE == env.AMADEUS_API_KEY # "" /\ env.AMADEUS_API_SECRET # ""

(* What Ticketmaster may hold for a query: less than a page, a full page,   *)
(* more than a page                                                          *)
UpstreamSizes == (0..MaxFound) \cup {PageSize, PageSize + 1}

(* The i-th event of the query in date order, as getEvents builds it from    *)
(* the response; its url tells it from the others                            *)
TmEvent(i) == [name |-> "Show", date |-> "2026-12-01", venue |-> "Arena", url |-> i]

(* The URLSearchParams of getEvents: apikey, startDateTime, endDateTime,     *)
(* sort, size and the place.  No page is set.                                *)
getEventsParams(limit) == [sort |-> "date,asc", size |-> limit]

(* The Discovery API: page size of the events in sort order, starting at     *)
(* page times size; page is 0 when the request has none.                     *)
PageOf(params) == IF "page" \in DOMAIN params THEN params.page ELSE 0
TmResponse(params) ==
    LET from == PageOf(params) * params.size
        n    == IF upstream - from < 0 THEN 0 ELSE Min(params.size, upstream - from)
    IN  [i \in 1..n |-> TmEvent(from + i)]

Formatted(ev) == [nombre |-> ev.name, fecha |-> ev.date, lugar |-> ev.venue, enlace |-> ev.url]
formattedEvents(evs) == [i \in 1..Len(evs) |-> Formatted(evs[i])]

(* A hotel of the Amadeus response, by whether it carries a distance *)
Hotel == [name : {"Inn"}, distance : BOOLEAN]
(* if (!hotel.distance) hotel.distance = calculateDistance(...) *)
WithDistance(hotels) == [i \in 1..Len(hotels) |-> [hotels[i] EXCEPT !.distance = TRUE]]

InitUpstream ==
    /\ entry \in {"ticketmaster", "amadeus"} /\ pc = "main"
    /\ env \in Envs
    /\ \E given \in BOOLEAN, latOk \in BOOLEAN, lonOk \in BOOLEAN,
          saveToDb \in BOOLEAN, userId \in BOOLEAN :
         /\ entry = "ticketmaster" => given /\ ~saveToDb /\ ~userId
         /\ entry = "amadeus" => latOk /\ lonOk
         /\ argv = [given |-> given, latOk |-> latOk, lonOk |-> lonOk,
                    saveToDb |-> saveToDb, userId |-> userId]
    /\ child = [st |-> "running",
                script |-> IF entry = "ticketmaster" THEN "scripts/scrapeo_geo.js"
                           ELSE "scripts/amadeus_hotels.js",
                stdout |-> <<>>, timeoutMs |-> 0]
    /\ net = <<>>
    /\ upstream \in (IF entry = "ticketmaster" THEN UpstreamSizes ELSE {0})
    /\ handlers = <<>> /\ amadeusCache = <<>> /\ now = 0
    /\ days = 1 /\ concurrency = 1 /\ dateRanges = <<>> /\ blocks = <<>>
    /\ results = <<>> /\ site = "empty"
    /\ Created /\ NoExtraction /\ NoSingle /\ NoEvents
    /\ apiKey = "" /\ envTimeout = 0 /\ req = NoReq /\ srv = "idle" /\ reached = "none"
    /\ run = NoRun /\ response = NoResponse
    /\ lastAmadeusCache = NoCache /\ stopFlags = {} /\ served = 0

UpstreamFrame ==
    UNCHANGED <<entry, browser, failure, multiVars, singleVars, eventVars, pipeVars,
                apiKey, envTimeout, req, srv, reached, response, lastAmadeusCache,
                stopFlags, served, env, argv, upstream,
                handlers, amadeusCache, now>>

(* console.log(text) as the last write, and the end of the process *)
Exit(code, stdout) ==
    /\ child' = [child EXCEPT !.st = "exited", !.stdout = stdout]
    /\ run' = [finished |-> TRUE, code |-> code, stdout |-> stdout, stderr |-> ""]
    /\ pc' = "exited"

EmptyJson == <<JsonChunk(JsonArray(<<>>))>>

(* The fetch issued without looking at the key. *)
TmMain_keyUnchecked ==
    /\ entry = "ticketmaster" /\ pc = "main"
    /\ IF ~argv.latOk \/ ~argv.lonOk
       THEN Exit(0, EmptyJson)
       ELSE pc' = "getEvents" /\ UNCHANGED <<child, run>>
    /\ UNCHANGED <<outcome, returned, net>>
    /\ UpstreamFrame

(* scrapeo_geo.js: parseFloat of the arguments, and the two early exits      *)
(* console.log('[]'); process.exit(0)                                        *)
TmMain ==
    /\ entry = "ticketmaster" /\ pc = "main"
    /\ IF ~argv.latOk \/ ~argv.lonOk
       THEN Exit(0, EmptyJson)
       ELSE IF env.TICKETMASTER_API_KEY = ""
       THEN Exit(0, EmptyJson)
       ELSE pc' = "getEvents" /\ UNCHANGED <<child, run>>
    /\ UNCHANGED <<outcome, returned, net>>
    /\ UpstreamFrame

(* getAllEvents without if (page > 50) break *)
TmGetEvents_noLimit ==
    /\ entry = "ticketmaster" /\ pc = "getEvents"
    /\ net' = Append(net, "ticketmaster")
    /\ \/ /\ Exit(1, <<>>)
          /\ outcome' = "rejected" /\ UNCHANGED returned
       \/ LET evs == TmResponse(getEventsParams(PageSize)) IN
            /\ returned' = returned \o evs
            /\ IF Len(evs) = 0 \/ Len(evs) < PageSize
               THEN outcome' = "resolved" /\ pc' = "print"
               ELSE outcome' = outcome /\ pc' = "getEvents"
            /\ UNCHANGED <<child, run>>
    /\ UpstreamFrame

(* getAllEvents: one turn of the while loop, getEvents({ limit: pageSize })  *)
(* and the three breaks; page, the number of full pages so far, is the       *)
(* number of requests made.  fetch(url) or res.json() that throws rejects    *)
(* the async main, and the process ends with code 1.                         *)
TmGetEvents ==
    /\ entry = "ticketmaster" /\ pc = "getEvents"
    /\ net' = Append(net, "ticketmaster")
    /\ \/ /\ Exit(1, <<>>)
          /\ outcome' = "rejected" /\ UNCHANGED returned
       \/ LET evs == TmResponse(getEventsParams(PageSize)) IN
            /\ returned' = returned \o evs
            /\ IF Len(evs) = 0 \/ Len(evs) < PageSize \/ Len(net) + 1 > PageLimit
               THEN outcome' = "resolved" /\ pc' = "print"
               ELSE outcome' = outcome /\ pc' = "getEvents"
            /\ UNCHANGED <<child, run>>
    /\ UpstreamFrame

(* console.log(JSON.stringify(formattedEvents)); the process then ends *)
TmPrint ==
    /\ entry = "ticketmaster" /\ pc = "print"
    /\ Exit(0, <<JsonChunk(JsonArray(formattedEvents(returned)))>>)
    /\ UNCHANGED <<outcome, returned, net>>
    /\ UpstreamFrame

(* amadeus_hotels.js: the usage text without two arguments; else the call of *)
(* getHotelsByGeocode, which returns [] if (!AMADEUS_AVAILABLE)              *)
AmMain ==
    /\ entry = "amadeus" /\ pc = "main"
    /\ IF ~argv.given
       THEN Exit(0, <<TextChunk>>) /\ UNCHANGED <<outcome, returned>>
       ELSE IF ~AMADEUS_AVAILABLE
       THEN outcome' = "resolved" /\ returned' = <<>> /\ pc' = "output"
            /\ UNCHANGED <<child, run>>
       ELSE pc' = "token" /\ UNCHANGED <<child, run, outcome, returned>>
    /\ UNCHANGED net
    /\ UpstreamFrame

(* getAccessToken: its catch ends the process with process.exit(1) *)
AmToken ==
    /\ entry = "amadeus" /\ pc = "token"
    /\ net' = Append(net, "token")
    /\ \/ pc' = "hotels" /\ UNCHANGED <<child, run>>
       \/ Exit(1, IF argv.saveToDb \/ argv.userId THEN <<TextChunk>> ELSE <<>>)
    /\ UNCHANGED <<outcome, returned>>
    /\ UpstreamFrame

(* The fetch of getHotelsByGeocode: a response that is not ok or has no data *)
(* is thrown on to the catch of the CLI, process.exit(1)                     *)
AmHotels ==
    /\ entry = "amadeus" /\ pc = "hotels"
    /\ net' = Append(net, "hotels")
    /\ \/ /\ Exit(1, IF argv.saveToDb \/ argv.userId THEN <<TextChunk>> ELSE <<>>)
          /\ outcome' = "rejected" /\ UNCHANGED returned
       \/ \E hotels \in SeqsUpTo(Hotel, MaxFound) :
            /\ outcome' = "resolved" /\ returned' = WithDistance(hotels)
            /\ pc' = "output" /\ UNCHANGED <<child, run>>
    /\ UpstreamFrame

(* if (saveToDb && userId) saveHotelsToSupabase (one upsert per hotel when   *)
(* Supabase is configured) else console.log(JSON.stringify(hotels));         *)
(* process.exit(0)                                                           *)
AmOutput ==
    /\ entry = "amadeus" /\ pc = "output"
    /\ IF argv.saveToDb /\ argv.userId
       THEN /\ Exit(0, <<TextChunk>>)
            /\ \E configured \in BOOLEAN :
                 net' = IF configured
                        THEN net \o [i \in 1..Len(returned) |-> "supabase"] ELSE net
       ELSE /\ Exit(0, (IF argv.saveToDb \/ argv.userId THEN <<TextChunk>> ELSE <<>>)
                       \o <<JsonChunk(JsonArray(returned))>>)
            /\ UNCHANGED net
    /\ UNCHANGED <<outcome, returned>>
    /\ UpstreamFrame

NextUpstream ==
    \/ TmMain \/ TmGetEvents \/ TmPrint
    \/ AmMain \/ AmToken \/ AmHotels \/ AmOutput

SpecUpstream == InitUpstream /\ [][NextUpstream]_vars

----------------------------------------------------------------------------
(* Every entry point *)

Init == InitSingle \/ InitMulti \/ InitEvents

Next == NextSingle \/ NextMulti \/ NextEvents

Spec == Init /\ [][Next]_vars

----------------------------------------------------------------------------
(* Properties *)

Last(s) == s[Len(s)]

(* C1: once the browser has launched, no entry point rejects because a       *)
(* navigation, a wait or an extraction failed: every promise that settles    *)
(* after such a failure resolves to an array.                                *)
C1_NeverRejects ==
    outcome = "rejected" => failure \notin {"goto", "wait", "evaluate"}

(* C2: in a multi-day run the blocks being processed at the same time, and   *)
(* the block pages open at the same time, never number more than             *)
(* min(concurrency, 5).                                                      *)
ActiveBlocks == {i \in Blocks : blocks[i].pc \notin {"done", "failed"}}
OpenBlockPages == {i \in Blocks : blocks[i].page = "open"}

C2_BlocksWithinConcurrency ==
    entry = "multi" =>
        /\ Cardinality(ActiveBlocks) <= CONCURRENT_TASKS(concurrency)
        /\ Cardinality(OpenBlockPages) <= CONCURRENT_TASKS(concurrency)

(* C3: for every window length N >= 1 the date blocks are contiguous,        *)
(* non-overlapping inclusive ranges whose union is exactly 0..N-1.           *)
Covered(ranges) == UNION {r[1]..r[2] : r \in Range(ranges)}

C3_PartitionCoversWindow ==
    (entry = "partition" /\ pc = "done") =>
        /\ Len(dateRanges) >= 1
        /\ dateRanges[1][1] = 0
        /\ \A i \in 1..Len(dateRanges) : dateRanges[i][1] <= dateRanges[i][2]
        /\ \A i \in 1..(Len(dateRanges) - 1) : dateRanges[i + 1][1] = dateRanges[i][2] + 1
        /\ Covered(dateRanges) = 0..(days - 1)

(* C4: the array returned by a multi-day run lists the days in increasing    *)
(* order, whatever the order in which the blocks ran.                        *)
C4_ResultsInDayOrder ==
    (entry = "multi" /\ outcome = "resolved") =>
        \A i \in 1..(Len(returned) - 1) : returned[i].date < returned[i + 1].date

(* C5: in every price result, initial, retry or day of a multi-day run, no   *)
(* two rooms of a date entry share a room_type, and the room kept for a      *)
(* room_type is the first one the extraction returned for it.                *)
UniqueTypes(rooms) ==
    \A i, j \in 1..Len(rooms) : i # j => rooms[i].room_type # rooms[j].room_type

TypesOf(rooms) == {rooms[i].room_type : i \in 1..Len(rooms)}

(* What the extraction just made returned, before the dedupe *)
Extracted == IF primaryOut # <<>> THEN primaryOut ELSE fallbackOut

FirstFor(type, rooms) ==
    rooms[CHOOSE i \in 1..Len(rooms) :
            /\ rooms[i].room_type = type
            /\ \A k \in 1..(i - 1) : rooms[k].room_type # type]

C5_FirstRoomPerType ==
    entry \in {"single", "multi"} =>
        /\ \A e \in Range(results) \cup Range(returned) : UniqueTypes(e.rooms)
        /\ pickedDate # -1 =>
             /\ UniqueTypes(picked)
             /\ TypesOf(picked) = TypesOf(Extracted)
             /\ \A i \in 1..Len(picked) : picked[i] = FirstFor(picked[i].room_type, Extracted)
        /\ (pickedDate # -1 /\ entry = "multi") =>
             Last(results) = [date |-> pickedDate, rooms |-> picked]
        /\ (pickedDate # -1 /\ entry = "single" /\ picked # <<>>) =>
             returned = <<[date |-> pickedDate, rooms |-> picked]>>

(* A lookup whose extraction returned two prices for one room type *)
C5_Witness ==
    /\ entry = "single" /\ outcome = "resolved" /\ pickedDate # -1
    /\ Len(Extracted) > Len(picked)
    /\ Len(returned) = 1 /\ returned[1].rooms = picked

(* A day of a multi-day run recorded with two room types *)
C5_WitnessDay ==
    /\ entry = "multi" /\ results # <<>> /\ Len(Last(results).rooms) = 2

(* C6: in the array returned by scrapeSongkick no two event records share    *)
(* the natural key name + venue + date + link.                               *)
NaturalKey(ev) == <<ev.nombre, ev.lugar, ev.fecha, ev.enlace>>

C6_EventKeysUnique ==
    (entry = "events" /\ outcome = "resolved") =>
        \A i, j \in 1..Len(returned) :
            i # j => NaturalKey(returned[i]) # NaturalKey(returned[j])

(* C7: a single-target lookup navigates at most 1 + 5 distinct check-in      *)
(* dates, today and today+1 .. today+5, each shifted date at most once, and  *)
(* returns [] when every extraction it made yielded zero rooms.              *)
DatesOf(nav) == Range(nav) \ {NoDate}

Times(nav, date) == Cardinality({i \in 1..Len(nav) : nav[i] = date})

AllEmpty == \A i \in 1..Len(tried) : tried[i].got = <<>>

C7_RetryBound ==
    entry = "single" =>
        /\ Cardinality(DatesOf(navigated)) <= 1 + 5
        /\ DatesOf(navigated) \subseteq {IsoDate(Now) + k : k \in 0..5}
        /\ \A k \in 1..5 : Times(navigated, IsoDate(Now) + k) <= 1
        /\ (outcome = "resolved" /\ AllEmpty) => returned = <<>>

(* All five shifted dates tried, one of them failing to load, and [] returned *)
C7_Witness ==
    /\ entry = "single" /\ outcome = "resolved" /\ returned = <<>>
    /\ Cardinality(DatesOf(navigated)) = 6
    /\ Len(tried) = 5 /\ AllEmpty

(* C8: the shifted dates are tried in increasing order; the result is one    *)
(* entry for the first date with a non-empty extraction, no date is          *)
(* navigated after it, and no retry is made when the initial date has rooms. *)
Shifted == SelectSeq(navigated, LAMBDA d : d > IsoDate(Now))

C8_FirstNonEmptyDay ==
    entry = "single" =>
        /\ \A i \in 1..Len(Shifted) : Shifted[i] = IsoDate(Now) + i
        /\ (tried # <<>> /\ tried[1].got # <<>>) => Shifted = <<>>
        /\ \A i \in 1..Len(tried) :
             tried[i].got # <<>> =>
                /\ i = Len(tried)
                /\ outcome = "resolved"
                /\ returned = <<[date |-> tried[i].date, rooms |-> tried[i].got]>>
                /\ \A d \in DatesOf(navigated) : d <= tried[i].date
        /\ (outcome = "resolved" /\ returned # <<>>) =>
             tried # <<>> /\ Last(tried).got # <<>>
        /\ \A i \in 2..Len(tried) : tried[i].date > tried[i - 1].date

(* Rooms found on the third shifted date, after two empty ones *)
C8_Witness ==
    /\ entry = "single" /\ outcome = "resolved"
    /\ Len(returned) = 1 /\ returned[1].date = IsoDate(Now) + 3
    /\ Len(tried) = 4 /\ Shifted = <<1, 2, 3>>

HasGeo(ev) == "latitude" \in DOMAIN ev

C10_DistanceWithinRadius ==
    (entry = "events" /\ outcome = "resolved") =>
        \A i \in 1..Len(returned) :
            HasGeo(returned[i]) => Leq(returned[i].distance_km, radiusKm)

(* A request to /hotel, /events or /ticketmaster that has the key, passed   *)
(* the validation of its handler, had its script spawned, and was answered. *)
ScrapeAnswered ==
    /\ entry = "server" /\ srv = "done" /\ req.route \in ScrapeRoutes
    /\ Authorized(req) /\ req.bodyOk /\ req.wellFormed

C12_OkIffExitZero ==
    ScrapeAnswered =>
        /\ (response.status = 200 /\ response.ok) <=> run.code = 0
        /\ run.code # 0 => (response.status = 500 /\ ~response.ok)
        /\ child.st = "exited" => run.code \in {0, 1, NullCode}
        /\ child.st = "killed" => run.code = TimedOutCode
        /\ child.st = "failed" => run.code = SpawnErrorCode
        /\ response.code = run.code

(* A script ended by a signal, answered with 500 *)
C12_Witness ==
    /\ ScrapeAnswered /\ child.st = "exited" /\ run.code = NullCode
    /\ response.status = 500 /\ ~response.ok

(* C13: no request reaches a route handler, changes the cache or the stop    *)
(* flags, or spawns a script unless its x-api-key header equals              *)
(* WORKER_API_KEY, on every endpoint, /health included; a request with       *)
(* another key is answered 401, and every request 500 when WORKER_API_KEY is *)
(* unset.                                                                    *)
C13_KeyBeforeHandler ==
    /\ [](entry = "server" =>
            /\ (reached # "none" \/ child.st # "none" \/ srv \in {"route", "running"})
                 => (apiKey # "" /\ req.key = apiKey)
            /\ (srv = "done" /\ apiKey = "") => response.status = 500
            /\ (srv = "done" /\ apiKey # "" /\ req.key # apiKey) => response.status = 401)
    /\ [][(lastAmadeusCache' # lastAmadeusCache \/ stopFlags' # stopFlags)
            => (apiKey # "" /\ req.key = apiKey)]_vars

(* A request without the key for what the cache of /amadeus holds, answered *)
(* 401                                                                       *)
C13_Witness ==
    /\ entry = "server" /\ srv = "done" /\ apiKey = "k1" /\ req.key = ""
    /\ req.route = "/amadeus" /\ ~req.saveToDb /\ req.bodyOk
    /\ lastAmadeusCache.key = req.params /\ lastAmadeusCache.response # NoResponse
    /\ response.status = 401 /\ reached = "none"

(* C14: the timeout after which the server kills a spawned script is the     *)
(* value of SCRAPER_TIMEOUT_MS, and 20 minutes when that variable is unset.  *)
C14_TimeoutFromEnv ==
    (entry = "server" /\ child.st # "none") =>
        child.timeoutMs = (IF envTimeout = 0 THEN 20 * 60 * 1000 ELSE envTimeout)

(* The browser of the job did not start. *)
LaunchFailed == outcome # "pending" /\ browser = "none"

RouteOf(script) == IF script = "scripts/hotel_propio.js" THEN "/hotel" ELSE "/events"

(* C15: when the browser fails to launch, the job resolves to an empty       *)
(* result without throwing and the server gets a non-zero exit code, hence  *)
(* ok false; no other failure gives a non-zero exit code.                    *)
C15_LaunchFailureSignalled ==
    (entry \in {"single", "multi", "events"} /\ run.finished) =>
        /\ LaunchFailed =>
             /\ outcome = "resolved" /\ returned = <<>>
             /\ run.code # 0
             /\ ~ScrapeResponse(RouteOf(child.script), run).ok
        /\ run.code # 0 => LaunchFailed

(* C16: on every path by which a job ends (completion, early empty return,   *)
(* error at a step after launch) the browser it launched has been closed     *)
(* before the job returns or rejects.                                        *)
C16_BrowserClosedAtEnd ==
    (entry \in {"single", "multi", "events"} /\ outcome # "pending" /\ browser # "none")
        => browser = "closed"


(* C18: for a hotel job, the output the server captures parses to the price  *)
(* array the scraper produced: data of the /hotel response equals that array *)
(* and count is the number of rooms in it.                                   *)
RECURSIVE TotalRooms(_)
TotalRooms(prices) ==
    IF prices = <<>> THEN 0 ELSE Len(Head(prices).rooms) + TotalRooms(Tail(prices))

C18_HotelDataIsResult ==
    (entry \in {"single", "multi"} /\ run.finished /\ outcome = "resolved") =>
        /\ ScrapeResponse("/hotel", run).data = PricesJson(returned)
        /\ ScrapeResponse("/hotel", run).count = TotalRooms(returned)

(* C17: in a multi-day run a navigation or extraction failure on day d       *)
(* records an entry for d with empty rooms and the block goes on to day      *)
(* d + 1; when the run returns, the result holds exactly one entry for every *)
(* day of its blocks, whatever days failed.                                  *)
RecordedBy(i) ==
    {k \in 1..Len(results) :
        \E o \in dateRanges[i][1]..dateRanges[i][2] : results[k].date = CheckinDate(o)}

Started == {j \in 1..Len(fetch) : fetch[j].st # "idle"}
InFlight == {j \in 1..Len(fetch) : fetch[j].st \in {"newPage", "goto"}}
BatchOf(j) == ((j - 1) \div 5) + 1

C19_EnrichmentBounded ==
    entry = "events" =>
        /\ Len(fetch) <= 15 /\ Cardinality(Started) <= 15
        /\ \A i, j \in 1..Len(fetch) : i # j => fetch[i].ev # fetch[j].ev
        /\ Cardinality(InFlight) <= 5
        /\ \A j \in Started : BatchOf(j) <= batch
        /\ \A j \in 1..Len(fetch) : BatchOf(j) < batch => Settled(j)
        /\ \A k \in 1..batch : Cardinality({j \in 1..Len(fetch) : BatchOf(j) = k}) <= 5

(* Sixteen events need enrichment: the third batch has its five pages in     *)
(* flight and the sixteenth event has no fetch                               *)
C19_Witness ==
    /\ entry = "events" /\ Len(fetch) = 15 /\ batch = 3
    /\ Cardinality(InFlight) = 5
    /\ Cardinality({i \in 1..Len(events) : Needs(events[i])}) >= 6
    /\ \E i \in 1..Len(events) : Needs(events[i]) /\ \A j \in 1..Len(fetch) : fetch[j].ev # i

(* C20: if the enrichment fetch of a record fails at any step, every field   *)
(* of the record is as it was before the attempt, the other records of the   *)
(* batch are still processed, and the record is not fetched again.           *)
C20_FailedFetchLeavesRecord ==
    /\ [](entry = "events" =>
            /\ \A j \in 1..Len(fetch) :
                 fetch[j].st = "failed" => events[fetch[j].ev] = BandPartial
            /\ (pc = "done" /\ outcome = "resolved" /\ fetch # <<>>) =>
                 /\ returned = events
                 /\ \A j \in 1..Len(fetch) :
                      /\ Settled(j)
                      /\ Reliable(j) => (fetch[j].st = "done" /\ events[fetch[j].ev].lugar = "Arena"))
    /\ [][\A j \in 1..Len(fetch) : fetch[j].st = "failed" => fetch'[j] = fetch[j]]_vars

(* The seventh fetch failed with its page open; its record is untouched and  *)
(* the job returned with the other fourteen records enriched                 *)
C20_Witness ==
    /\ entry = "events" /\ pc = "done" /\ outcome = "resolved" /\ Len(fetch) = 15
    /\ fetch[7].st = "failed" /\ fetch[7].page = "open"
    /\ returned[fetch[7].ev] = BandPartial
    /\ \A j \in (1..15) \ {7} : fetch[j].st = "done"

(* C21: when a required credential is absent (TICKETMASTER_API_KEY for the   *)
(* Ticketmaster script, the Amadeus key or secret for getHotelsByGeocode)    *)
(* the unit produces an empty result without issuing any network request,    *)
(* and the Ticketmaster script prints [] and exits with code 0.              *)
C21_NoCredentialNoRequest ==
    /\ (entry = "ticketmaster" /\ env.TICKETMASTER_API_KEY = "") =>
          /\ net = <<>>
          /\ pc \in {"main", "exited"}
          /\ pc = "exited" => (run.code = 0 /\ child.stdout = <<JsonChunk(JsonArray(<<>>))>>)
    /\ (entry = "amadeus" /\ (env.AMADEUS_API_KEY = "" \/ env.AMADEUS_API_SECRET = "")) =>
          /\ net = <<>>
          /\ pc \in {"main", "output", "exited"}
          /\ (pc = "output" \/ (pc = "exited" /\ argv.given)) =>
                (outcome = "resolved" /\ returned = <<>>)

(* The Ticketmaster script, given coordinates and no key, has ended *)
C21_Witness ==
    /\ entry = "ticketmaster" /\ env.TICKETMASTER_API_KEY = ""
    /\ argv.latOk /\ argv.lonOk
    /\ pc = "exited" /\ run.code = 0 /\ net = <<>>

(* C22: in a multi-day run the shared results collection is written only at  *)
(* the join point, after every block has completed; no block appends to it   *)
(* while another block is still running.                                     *)
C22_ResultsWrittenAtJoin ==
    [][(entry = "multi" /\ results' # results) =>
          \A i \in Blocks : blocks'[i] # blocks[i] \/ blocks[i].pc \in {"done", "failed"}]_vars

(* C23: in a multi-day run every day offset of the window is navigated       *)
(* exactly once and by exactly one page session; each block uses one page    *)
(* session for all its days and visits them in strictly increasing order     *)
(* with at most one navigation in flight per block.                          *)
Visited(i) == {blocks[i].visited[k] : k \in 1..Len(blocks[i].visited)}

C24_PageClosedWithUnit ==
    /\ entry = "multi" =>
          \A i \in Blocks : blocks[i].pc \in {"done", "failed"} => blocks[i].page # "open"
    /\ entry = "events" =>
          \A j \in 1..Len(fetch) : Settled(j) => fetch[j].page # "open"

(* C25: a job goes through its phases only in the order session start,       *)
(* scheduling, extraction, aggregation, enrichment, completion, never        *)
(* re-entering an earlier phase; the failed terminal state is reachable      *)
(* only from session start (browser launch), and any failure in a later      *)
(* phase ends in a completed, possibly empty, result.                        *)
(* Session start is taken up to the arrival on the hotel page.               *)
JobPhase ==
    IF pc = "done" THEN 6
    ELSE IF entry = "multi"
    THEN (IF pc \in {"launch", "newPage", "search", "href", "hotel"} THEN 1
          ELSE IF pc = "schedule" THEN 2
          ELSE IF \A i \in Blocks : blocks[i].pc \in {"done", "failed"} THEN 4 ELSE 3)
    ELSE (IF pc = "launch" THEN 1
          ELSE IF pc \in {"goto", "consent", "pause", "idle", "scroll", "marker",
                          "content", "extract"} THEN 3
          ELSE 5)

C25_PhasesInOrder ==
    [][(entry = "multi" \/ entry = "events") =>
          (JobPhase' >= JobPhase
           /\ ((outcome = "pending" /\ outcome' = "rejected") => JobPhase = 1))]_vars

(* C26: in scrapeSongkick the readiness steps run in the order initial load, *)
(* consent dismissal, network-idle wait, the fixed number of scroll steps,   *)
(* content-marker wait; the failure or timeout of any one of these steps is  *)
(* swallowed, the later steps still run and extraction is still attempted    *)
(* on the page.                                                              *)
ReadinessSteps == {"goto", "consent", "idle", "scroll", "marker"}

StepAfter(step) ==
    CASE step = "goto"    -> {"consent"}
      [] step = "consent" -> {"pause"}
      [] step = "idle"    -> {"scroll"}
      [] step = "scroll"  -> {"scroll", "marker"}
      [] step = "marker"  -> {"content"}

C26_ReadinessBestEffort ==
    [][(entry = "events" /\ pc \in ReadinessSteps) =>
          (pc' \in StepAfter(pc) /\ (pc' = "marker" => scrolled' = 12))]_vars

(* C27: a multi-day run is split into at most 3 blocks and no block spans    *)
(* more than 30 days, for every window length from 1 to 90 days.             *)
DaysOf(range) == range[2] - range[1] + 1

C27_BlocksWithinThirtyDays ==
    (entry = "partition" /\ pc = "done" /\ days <= 90) =>
        /\ Len(dateRanges) <= 3
        /\ \A i \in 1..Len(dateRanges) : DaysOf(dateRanges[i]) <= 30

(* C28: an event record in the output of scrapeSongkick carries distance_km  *)
(* only if the record's geo-coordinates and the origin are both known:       *)
(* records built without latitude and longitude never carry distance_km,     *)
(* and records that carry latitude and longitude always do.                  *)
Carries(ev, field) == field \in DOMAIN ev

DistanceWithGeo(evs) ==
    \A i \in 1..Len(evs) :
        /\ Carries(evs[i], "latitude") <=> Carries(evs[i], "longitude")
        /\ Carries(evs[i], "distance_km") <=> Carries(evs[i], "latitude")

C28_DistanceOnlyWithGeo ==
    entry = "events" =>
        /\ DistanceWithGeo(events)
        /\ outcome = "resolved" => DistanceWithGeo(returned)

(* The job returned two records, one with coordinates and one without *)
C28_Witness ==
    /\ entry = "events" /\ outcome = "resolved" /\ Len(returned) = 2
    /\ Carries(returned[1], "distance_km")
    /\ ~Carries(returned[2], "latitude")

(* C29: enrichment changes only the date, venue and link fields of a record, *)
(* and a field only when it was empty before; the name, latitude, longitude  *)
(* and distance_km of every record are unchanged, no distance_km is added,   *)
(* and records are neither added, removed nor reordered.                     *)
Enrichable == {"fecha", "lugar", "enlace"}

SameButFilled(before, after) ==
    /\ DOMAIN after = DOMAIN before
    /\ \A f \in DOMAIN before :
         (f \notin Enrichable \/ before[f] # "") => after[f] = before[f]

C29_EnrichmentFillsEmptyOnly ==
    [][(entry = "events" /\ pc = "enrich") =>
          (/\ Len(events') = Len(events)
           /\ \A i \in 1..Len(events) : SameButFilled(events[i], events'[i])
           /\ outcome' = "resolved" => returned' = events)]_vars

(* A record with coordinates and no date was fetched: it has its venue from  *)
(* the detail page, still no date, and its coordinates and distance          *)
C29_Witness ==
    /\ entry = "events" /\ pc = "enrich" /\ Len(events) = 2
    /\ \E j \in 1..Len(fetch) :
         /\ fetch[j].st = "done"
         /\ Carries(events[fetch[j].ev], "distance_km")
         /\ events[fetch[j].ev].lugar = "Arena" /\ events[fetch[j].ev].fecha = ""
    /\ \E j \in 1..Len(fetch) : fetch[j].st = "failed"

(* C30: runNodeScript resolves its promise exactly once for every            *)
(* interleaving of the timeout firing, the child's close event, the child's  *)
(* error event and stdout/stderr data events; the resolved value is that of  *)
(* whichever of timeout, close and error happens first, and events arriving  *)
(* afterwards change nothing.                                                *)
C30_ResolvesOnce ==
    /\ [](child.st \in {"exited", "killed", "failed", "closed"} => run.finished)
    /\ [][run.finished => run' = run]_vars
    /\ [][(~run.finished /\ run'.finished) =>
            (/\ run'.stdout = child.stdout
             /\ \/ child'.st = "exited" /\ run'.code \in {0, 1, NullCode}
                \/ child'.st = "killed" /\ run'.code = 124 /\ run'.stderr = "Timed out"
                \/ child'.st = "failed" /\ run'.code = 0 - 1)]_vars
    /\ (child.st = "running" ~> run.finished)

(* The timer fired first; output arrived after it and then the close event *)
C30_Witness ==
    /\ entry = "server" /\ child.st = "closed"
    /\ run.finished /\ run.code = 124 /\ run.stdout = <<>>
    /\ Len(child.stdout) = 2

----------------------------------------------------------------------------
(* The routes that run a script *)
ScriptRoutes == ScrapeRoutes \cup {"/amadeus"}

(* The request has passed requireApiKey and the checks of its handler *)
Validated == srv = "route" /\ req.route \in ScriptRoutes /\ req.bodyOk

(* The request has its response *)
Answered == srv = "done" /\ response # NoResponse

(* C31: every request to /hotel, /events, /ticketmaster or /amadeus that     *)
(* passes authentication and validation eventually receives its response,    *)
(* even when the script never writes and never ends.                         *)
C31_ValidatedIsAnswered == Validated ~> Answered

(* The part of C31 that holds: a request whose script was started is         *)
(* answered, by the timer at the latest.                                     *)
C31_StartedIsAnswered == (srv = "running") ~> Answered

(* C32: whenever runNodeScript has resolved, its script is not left running: *)
(* it has closed, it could not be started, or the timer has sent it SIGKILL  *)
(* before delivering the result with code 124 and 'Timed out'.               *)
C32_ChildNotLeftRunning ==
    (entry = "server" /\ run.finished) =>
        /\ child.st \in {"exited", "failed", "killed", "closed"}
        /\ run.code = TimedOutCode =>
               (child.st \in {"killed", "closed"} /\ run.stderr = "Timed out")
        /\ run.code = SpawnErrorCode => child.st \in {"failed", "closed"}
        /\ run.code \in {0, 1, NullCode} => child.st = "exited"

(* A call resolved by the timer, its script killed *)
C32_Witness ==
    /\ run.finished /\ run.code = TimedOutCode /\ run.stderr = "Timed out"
    /\ child.st = "killed"

(* C33: every /amadeus response with status 200 has ok true in its body,     *)
(* the responses served from lastAmadeusCache included.                      *)
C33_Status200IsOk ==
    (entry = "server" /\ srv = "done" /\ reached = "/amadeus" /\ response.status = 200)
        => response.ok

(* The handler of /amadeus is past validation with a request that sets saveToDb *)
Saving == req.route = "/amadeus" /\ req.saveToDb /\ req.bodyOk

(* C34: an /amadeus request with saveToDb true is never answered from the    *)
(* cache, it always starts the script, and it leaves lastAmadeusCache as it  *)
(* was; the cache is written only by /amadeus requests without saveToDb.     *)
C34_SaveBypassesCache ==
    [][entry = "server" =>
        (/\ (Saving /\ srv = "route" /\ req.wellFormed) => child'.st = "running"
         /\ (Saving /\ srv \in {"route", "running"}) => lastAmadeusCache' = lastAmadeusCache
         /\ lastAmadeusCache' # lastAmadeusCache =>
                (req.route = "/amadeus" /\ ~req.saveToDb /\ srv = "running"))]_vars

(* A saveToDb request answered by its own run while the cache holds another  *)
(* response under the same key                                               *)
C34_Witness ==
    /\ entry = "server" /\ srv = "done" /\ Saving /\ run.finished
    /\ lastAmadeusCache.key = req.params /\ lastAmadeusCache.response # NoResponse
    /\ response.code # lastAmadeusCache.response.code

(* The routes whose handler checks the body *)
CheckedRoutes == ScriptRoutes \cup FlagRoutes

(* C36: a request that fails the validation of its handler (latitude or      *)
(* longitude not a number on /amadeus, /events, /ticketmaster; userUuid or   *)
(* hotelName missing on /hotel; userUuid missing on /select-hotel and        *)
(* /clear-selection) is answered 400, starts no script and changes neither   *)
(* lastAmadeusCache nor a stop flag.                                         *)
C36_InvalidIsRejected ==
    [][(entry = "server" /\ srv = "route" /\ req.route \in CheckedRoutes /\ ~req.bodyOk) =>
        (/\ srv' = "done" /\ response'.status = 400 /\ ~response'.ok
         /\ child = NoChild /\ child' = NoChild /\ run' = NoRun
         /\ lastAmadeusCache' = lastAmadeusCache
         /\ stopFlags' = stopFlags)]_vars

(* /clear-selection without userUuid, answered 400 while a stop flag is set *)
C36_Witness ==
    /\ entry = "server" /\ srv = "done" /\ reached = "/clear-selection" /\ ~req.bodyOk
    /\ response.status = 400 /\ stopFlags # {} /\ child = NoChild

(* C37: getAllEvents ends after at most 51 page requests, whatever the       *)
(* upstream answers, also when every page comes back full.                   *)
C37_AtMostFiftyOnePages ==
    entry = "ticketmaster" =>
        /\ Len(net) <= PageLimit + 1
        /\ Len(net) = PageLimit + 1 => pc # "getEvents"

(* Fifty-one full pages were fetched and the loop has ended *)
C37_Witness ==
    /\ entry = "ticketmaster" /\ pc = "print" /\ outcome = "resolved"
    /\ Len(net) = PageLimit + 1 /\ Len(returned) = (PageLimit + 1) * PageSize

(* C38: getAllEvents fetches successive pages, so that when upstream holds   *)
(* more than one page the list it returns has each upstream event exactly    *)
(* once.                                                                     *)
C38_EachEventOnce ==
    (entry = "ticketmaster" /\ upstream > PageSize) =>
        /\ \A k \in 1..Len(returned) : returned[k].url = k
        /\ outcome = "resolved" => Len(returned) = upstream

----------------------------------------------------------------------------
(* POST /amadeus with several requests in flight: every invocation of the    *)
(* handler has its own body, cacheKey, args and json, and all share          *)
(* lastAmadeusCache.  A string is the sequence of its pieces, so that a      *)
(* template literal is a concatenation.                                      *)

MaxHandlers == 2   \* invocations of the handler that can be in flight together
MaxCalls    == 3   \* requests received in all

(* The bodies that pass the check of latitude and longitude: both are        *)
(* numbers, radius and keyword are whatever the client sent.                 *)
AmBodies ==
    [latitude : {<<"1">>}, longitude : {<<"2">>},
     radius : {<<"30">>, <<"30", "|", "inn">>},
     keyword : {<<>>, <<"inn">>, <<"inn", "|">>},
     saveToDb : BOOLEAN]

(* const cacheKey = `${latitude}|${longitude}|${radius}|${keyword || ''}` *)
cacheKey(b) ==
    b.latitude \o <<"|">> \o b.longitude \o <<"|">> \o b.radius \o <<"|">> \o b.keyword

(* const args = [String(latitude), String(longitude), `--radius=${radius}`]; *)
(* if (keyword) args.push(`--keyword=${keyword}`);                           *)
(* if (saveToDb && userUuid) args.push(`--user-id=${userUuid}`, '--save')    *)
scriptArgs(b) ==
    <<b.latitude, b.longitude, <<"--radius=">> \o b.radius>>
    \o (IF b.keyword # <<>> THEN << <<"--keyword=">> \o b.keyword >> ELSE <<>>)
    \o (IF b.saveToDb THEN << <<"--user-id=", "u1">>, <<"--save">> >> ELSE <<>>)

(* args.find(arg => arg.startsWith(name))?.split('=')[1] *)
ArgOf(args, name) ==
    LET found == {i \in 1..Len(args) : Head(args[i]) = name}
    IN  IF found = {} THEN <<>> ELSE Tail(args[CHOOSE i \in found : \A j \in found : i <= j])

(* parseInt(text) || 30: the digits the text starts with *)
parseRadius(text) == IF text = <<>> THEN "30" ELSE Head(text)

(* The query amadeus_hotels.js makes of its arguments *)
QueryOf(args) ==
    [lat |-> args[1], lng |-> args[2],
     radius |-> parseRadius(ArgOf(args, "--radius=")),
     keyword |-> ArgOf(args, "--keyword=")]

(* What the script prints when it ends with code 0: the hotels of its query, *)
(* or the text of its log when it saves.                                     *)
ScriptOutput(args) ==
    IF ArgOf(args, "--user-id=") # <<>> THEN [log |-> QueryOf(args)]
    ELSE [hotels |-> QueryOf(args)]

Idle == [pc |-> "idle", body |-> <<>>, response |-> NoResponse]

InitAmadeus ==
    /\ JobIdle
    /\ apiKey = "k1" /\ envTimeout = 0 /\ req = NoReq /\ srv = "idle" /\ reached = "none"
    /\ child = NoChild /\ run = NoRun /\ response = NoResponse
    /\ lastAmadeusCache = [key |-> <<>>, response |-> NoResponse]
    /\ stopFlags = {} /\ served = 0
    /\ env = NoEnv /\ argv = NoArgv /\ net = <<>> /\ upstream = 0
    /\ handlers = [h \in 1..MaxHandlers |-> Idle]
    /\ amadeusCache = <<>> /\ now = 0

AmadeusFrame ==
    UNCHANGED <<jobVars, multiVars, singleVars, eventVars, pipeVars,
                apiKey, envTimeout, req, srv, reached, child, run, response, stopFlags,
                env, argv, net, upstream, amadeusCache, now>>

(* A request arrives and the handler runs up to its await: the answer from   *)
(* the cache, or the start of the script.                                    *)
AmadeusCall(h) ==
    /\ entry = "server" /\ handlers[h].pc \in {"idle", "done"} /\ served < MaxCalls
    /\ \E b \in AmBodies :
         IF ~b.saveToDb /\ lastAmadeusCache.key = cacheKey(b)
            /\ lastAmadeusCache.response # NoResponse
         THEN handlers' = [handlers EXCEPT ![h] =
                  [pc |-> "done", body |-> b,
                   response |-> AmadeusResponse(200, lastAmadeusCache.response)]]
         ELSE handlers' = [handlers EXCEPT ![h] =
                  [pc |-> "running", body |-> b, response |-> NoResponse]]
    /\ served' = served + 1
    /\ UNCHANGED lastAmadeusCache
    /\ AmadeusFrame

(* The script of an invocation ends and the handler runs from its await to   *)
(* its end.                                                                  *)
AmadeusResume(h) ==
    /\ entry = "server" /\ handlers[h].pc = "running"
    /\ \E code \in {0, 1} :
         LET b    == handlers[h].body
             json == AmadeusJson([code |-> code,
                                  stdout |-> IF code = 0 THEN ScriptOutput(scriptArgs(b))
                                             ELSE <<>>,
                                  stderr |-> "stderr"])
         IN  /\ lastAmadeusCache' =
                   IF ~b.saveToDb THEN [key |-> cacheKey(b), response |-> json]
                   ELSE lastAmadeusCache
             /\ handlers' = [handlers EXCEPT ![h] =
                   [pc |-> "done", body |-> b,
                    response |-> AmadeusResponse(StatusOf(code), json)]]
    /\ UNCHANGED served
    /\ AmadeusFrame

NextAmadeus == \E h \in 1..MaxHandlers : AmadeusCall(h) \/ AmadeusResume(h)

SpecAmadeus == InitAmadeus /\ [][NextAmadeus]_vars

(* C35: for every interleaving of concurrent /amadeus requests with          *)
(* different parameters, the response stored in lastAmadeusCache was         *)
(* produced by a script run with the parameters encoded in the stored key,   *)
(* so that a request answered from the cache never receives the result of    *)
(* another query.                                                            *)
C35_HitIsOwnQuery ==
    entry = "server" =>
        /\ (lastAmadeusCache.response # NoResponse /\ lastAmadeusCache.response.ok) =>
               \E b \in AmBodies :
                   /\ ~b.saveToDb /\ cacheKey(b) = lastAmadeusCache.key
                   /\ lastAmadeusCache.response.output = ScriptOutput(scriptArgs(b))
        /\ \A h \in DOMAIN handlers :
               (handlers[h].pc = "done" /\ handlers[h].response.ok) =>
                   handlers[h].response.output = ScriptOutput(scriptArgs(handlers[h].body))

(* The part of C35 that holds: what is stored was produced by a run of the   *)
(* request that built the stored key.                                        *)
C35_StoredTogether ==
    (entry = "server" /\ lastAmadeusCache.response # NoResponse
        /\ lastAmadeusCache.response.ok) =>
        \E b \in AmBodies :
            /\ ~b.saveToDb /\ cacheKey(b) = lastAmadeusCache.key
            /\ lastAmadeusCache.response.output = ScriptOutput(scriptArgs(b))

----------------------------------------------------------------------------
(* POST /amadeus of the server that caches the hotels of a place for ten     *)
(* minutes (amadeusCache, makeAmadeusKey, isFresh), one request at a time,   *)
(* with the clock moving between the steps.                                  *)

(* const AMADEUS_CACHE_TTL_MS = 10 * 60 * 1000 *)
AMADEUS_CACHE_TTL_MS == 600000
MaxTicks == 3    \* steps of the clock, of half the TTL each

(* The hotels Amadeus has within the radius of the place *)
Inn    == [name |-> "Grand Inn", words |-> {"grand", "inn"}]
Hostal == [name |-> "Hostal Sol", words |-> {"hostal", "sol"}]
BaseList(radius) == IF radius = "30" THEN <<Inn>> ELSE <<Inn, Hostal>>

TtlBodies ==
    [latitude : {"1"}, longitude : {"2"}, radius : {"30", "50"},
     keyword : {"", "inn", "sol"}, saveToDb : BOOLEAN]

(* makeAmadeusKey(lat, lon, radius): `${lat}:${lon}:${radius}` *)
makeAmadeusKey(lat, lon, radius) == <<lat, ":", lon, ":", radius>>
KeyOf(b) == makeAmadeusKey(b.latitude, b.longitude, b.radius)

(* The radius a key was made of *)
RadiusOf(key) == key[5]

(* isFresh(entry): entry && (Date.now() - entry.ts) < AMADEUS_CACHE_TTL_MS *)
isFresh(key) ==
    key \in DOMAIN amadeusCache /\ now - amadeusCache[key].ts < AMADEUS_CACHE_TTL_MS

(* hotels.filter(h => (h?.name || '').toLowerCase().includes(keyword)) *)
FilterBy(hotels, keyword) == SelectSeq(hotels, LAMBDA h : keyword \in h.words)

(* What amadeus_hotels.js prints when it ends with code 0: the JSON of the   *)
(* hotels, or with --save the text of its log.                               *)
TtlStdout(b) ==
    IF b.saveToDb THEN [kind |-> "text", value |-> <<>>]
    ELSE [kind |-> "json", value |-> BaseList(b.radius)]

(* let hotels = []; try { hotels = JSON.parse(stdout) } catch {} *)
ParsedHotels(stdout) == IF stdout.kind = "json" THEN stdout.value ELSE <<>>

InitTtl ==
    /\ JobIdle
    /\ apiKey = "k1" /\ envTimeout = 0 /\ req = NoReq /\ srv = "idle" /\ reached = "none"
    /\ child = NoChild /\ run = NoRun /\ response = NoResponse
    /\ lastAmadeusCache = NoCache /\ stopFlags = {} /\ served = 0
    /\ env = NoEnv /\ argv = NoArgv /\ net = <<>> /\ upstream = 0
    /\ handlers = <<Idle>>
    /\ amadeusCache = <<>> /\ now = 0

TtlFrame ==
    UNCHANGED <<jobVars, multiVars, singleVars, eventVars, pipeVars,
                apiKey, envTimeout, req, srv, reached, child, run, response,
                lastAmadeusCache, stopFlags, env, argv, net, upstream>>

(* Time passes *)
Tick ==
    /\ entry = "server" /\ now < MaxTicks * (AMADEUS_CACHE_TTL_MS \div 2)
    /\ now' = now + AMADEUS_CACHE_TTL_MS \div 2
    /\ UNCHANGED <<handlers, amadeusCache, served>>
    /\ TtlFrame

(* A request arrives and the handler runs up to its await: the answer from   *)
(* a fresh entry when a keyword is given, or the start of the script.        *)
TtlCall ==
    /\ entry = "server" /\ handlers[1].pc \in {"idle", "done"} /\ served < MaxCalls
    /\ \E b \in TtlBodies :
         IF b.keyword # "" /\ isFresh(KeyOf(b))
         THEN handlers' = <<[pc |-> "done", body |-> b,
                             response |-> [status |-> 200, ok |-> TRUE, code |-> 0, error |-> "",
                                           output |-> FilterBy(amadeusCache[KeyOf(b)].hotels,
                                                               b.keyword)]]>>
         ELSE handlers' = <<[pc |-> "running", body |-> b, response |-> NoResponse]>>
    /\ served' = served + 1
    /\ UNCHANGED <<amadeusCache, now>>
    /\ TtlFrame

(* The script ends and the handler runs from its await to its end *)
TtlResume ==
    /\ entry = "server" /\ handlers[1].pc = "running"
    /\ LET b == handlers[1].body IN
       \E code \in {0, 1} :
         IF code # 0
         THEN /\ handlers' = <<[pc |-> "done", body |-> b,
                                response |-> [status |-> 500, ok |-> FALSE, code |-> code,
                                              error |-> "stderr", output |-> <<>>]]>>
              /\ UNCHANGED amadeusCache
         ELSE LET hotels == ParsedHotels(TtlStdout(b)) IN
              /\ amadeusCache' =
                   [k \in DOMAIN amadeusCache \cup {KeyOf(b)} |->
                       IF k = KeyOf(b) THEN [hotels |-> hotels, ts |-> now]
                       ELSE amadeusCache[k]]
              /\ handlers' = <<[pc |-> "done", body |-> b,
                                response |-> [status |-> 200, ok |-> TRUE, code |-> 0,
                                              error |-> "",
                                              output |-> IF b.keyword # ""
                                                         THEN FilterBy(hotels, b.keyword)
                                                         ELSE TtlStdout(b).value]]>>
    /\ UNCHANGED <<served, now>>
    /\ TtlFrame

NextTtl == Tick \/ TtlCall \/ TtlResume

SpecTtl == InitTtl /\ [][NextTtl]_vars

(* The step answers the request from the cache *)
ServedFromCache == handlers[1].pc \in {"idle", "done"} /\ handlers'[1].pc = "done"

(* C39: in the handler with the TTL, an entry is served only while it is     *)
(* younger than ten minutes, and every entry stored for a key holds the      *)
(* hotel list the Amadeus script returned for that key, requests with        *)
(* saveToDb and scripts with unparseable output included.                    *)
C39_FreshAndFaithful ==
    [][entry = "server" =>
        (/\ (ServedFromCache /\ handlers' # handlers) =>
                isFresh(KeyOf(handlers'[1].body))
         /\ \A k \in DOMAIN amadeusCache' :
                amadeusCache'[k].hotels = BaseList(RadiusOf(k)))]_vars

(* The part of C39 that holds: only a fresh entry is served *)
C39_ServedWhileFresh ==
    [][(entry = "server" /\ ServedFromCache /\ handlers' # handlers) =>
        isFresh(KeyOf(handlers'[1].body))]_vars
====
